---------------------------- MODULE Spec2Model ----------------------------
(***************************************************************************)
(* Model of two components of the simulation platform:                     *)
(*   - AdvancedThreadPool  (src/ThreadPool/advancedthreadpool.hpp)         *)
(*   - TerrainStorageEngine with its GridLRUCache                          *)
(*     (src/LevelDBManager/terrainStorageEngine_test/test_basic.cpp,       *)
(*      lines 245-695, the engine header)                                  *)
(* The pool is modelled at the granularity of its synchronisation steps:   *)
(* every read of the atomic running_ flag that is not ordered by           *)
(* queue_mutex_ against its writer, every acquisition of queue_mutex_ and  *)
(* every wait / notify on task_available_ is a separate step.              *)
(***************************************************************************)
EXTENDS Integers, Sequences, FiniteSets, TLC

(***************************************************************************)
(* Bounds of the pool model.                                               *)
(***************************************************************************)
NumSubmitters == 2
MaxSubmits == 3
MaxWorkerIds == 3
MaxThreadsBound == 2
MaxTasksBound == 2
MaxShutdownCalls == 2

(***************************************************************************)
(* enum class TaskPriority { HIGH, NORMAL, LOW }                           *)
(***************************************************************************)
HIGH == 0
NORMAL == 1
LOW == 2
TaskPriority == {HIGH, NORMAL, LOW}

Submitters == 1..NumSubmitters
WorkerIds == 1..MaxWorkerIds
Tasks == 1..MaxSubmits

\* thread identities (std::thread::id); Free is "no owner"
W(i) == <<"w", i>>
S(i) == <<"s", i>>
Free == <<"free", 0>>

VARIABLES
    config_,           \* ThreadPoolConfig: mode, min_threads, max_threads, max_tasks
    env,               \* the callers: submitter threads, submit calls, priorities,
                       \* task outcomes, and whether some thread calls shutdown
    running_,          \* std::atomic_bool
    workers_,          \* std::vector<std::thread>, as the sequence of worker ids
    task_queue_,       \* the priority queue, as the set of queued task ids
    queue_mutex_,      \* owner of the mutex, or Free
    waiters,           \* threads blocked inside task_available_.wait*/wait_for
    expired_workers_,  \* std::unordered_set<std::thread::id>
    stop_requested,    \* the jthread's stop token
    wpc, wtask,        \* per worker: position in worker_routine, task held
    spc, stask,        \* per submitter: position in submit, task being submitted
    mpc,               \* position of manage_workers
    sdpc, sd_workers,  \* position of shutdown and its local vector `workers`
    sdcalls,           \* history: calls of shutdown made after the first one
    nextWorker,        \* number of threads add_worker has created so far
    nextTask,          \* number of submit calls made so far
    priority,          \* TaskItem::priority of each task
    tstate,            \* per task: what happened to it / to its future
    queuedWith,        \* history: the queue contents each task was pushed into
    deqSeq,            \* history: tasks in the order they were popped
    startSeq           \* history: tasks in the order their bodies started

poolVars == <<config_, env, running_, workers_, task_queue_, queue_mutex_, waiters,
              expired_workers_, stop_requested, wpc, wtask, spc, stask, mpc,
              sdpc, sd_workers, sdcalls, nextWorker, nextTask, priority, tstate,
              queuedWith, deqSeq, startSeq>>

VARIABLES
    store,         \* the LevelDB contents: storage key -> value
    cache_map_,    \* GridLRUCache::cache_map_: grid id -> GridCacheItem::data
    access_list_,  \* GridLRUCache::access_list_, front first
    lastOp,        \* the last engine call and what it returned
    lastWrite,     \* history: per storage key, the value of its last successful write
    written,       \* history: per point, the value of its last successful write
    failed         \* history: some call so far has thrown

terrainVars == <<store, cache_map_, access_list_, lastOp, lastWrite, written, failed>>

VARIABLES
    touches        \* history: the grid ids touched by direct calls of the cache,
                   \* oldest first (a get that hits, or a put)

\* Threads that call the engine concurrently.  A GridCacheItem is an object
\* on the heap that a caller keeps alive through its shared_ptr even after
\* the cache dropped it.
VARIABLES
    cpc,           \* per client thread: position inside its engine call
    cop,           \* per client thread: the call's arguments and locals
    objid,         \* which heap object each resident grid's item is
    detached,      \* data of the items the cache dropped that a caller still holds
    wrote,         \* history: per point, the values put or batchPut calls wrote
    calls          \* number of engine calls made so far

concVars == <<cpc, cop, objid, detached, wrote, calls>>

\* LevelDBManager, called by one thread at a time
VARIABLES
    db_,           \* std::unique_ptr<leveldb::DB>: the path of the open database, or NoDb
    db_path_,      \* std::string
    initialized_,  \* std::atomic<bool>
    disk,          \* per database path, the key -> value contents on disk
    flog           \* history: the facade calls made so far and how each ended

facadeVars == <<db_, db_path_, initialized_, disk, flog>>

\* Construction of a TerrainStorageEngine from arbitrary arguments
VARIABLES
    engine         \* the last constructor call: its arguments and how it ended

ctorVars == <<engine>>

\* DBConnectionPool and the threads that take and return connections
VARIABLES
    idle_connections_,    \* std::list<ConnectionPtr>, front first
    active_connections_,  \* std::map<DBConn*, ConnectionPtr>, as its key set
    pool_mutex_,          \* the thread that owns the mutex, or 0
    pool_cv_,             \* threads blocked in pool_cv_.wait_for
    gpc,                  \* per caller: position inside getConnection
    gloc,                 \* per caller: what the current or last call saw and returned
    holds,                \* per caller: the connections it has checked out
    nextConn,             \* number of connections the factory has made so far
    gcalls                \* number of getConnection calls made so far

connVars == <<idle_connections_, active_connections_, pool_mutex_, pool_cv_, gpc,
              gloc, holds, nextConn, gcalls>>

\* the components that the pool, the cache and the engine callers leave alone
sideVars == <<facadeVars, ctorVars, connVars>>

clientVars == <<touches, concVars, sideVars>>

vars == <<poolVars, terrainVars, clientVars>>

Min(a, b) == IF a < b THEN a ELSE b

(***************************************************************************)
(* TaskCompare: the priority_queue's "less" (a is below b).                *)
(***************************************************************************)
TaskCompareFlipped(a, b) == priority[a] < priority[b]

TaskCompare(a, b) == priority[a] > priority[b]

\* std::priority_queue::top(): an element that is below no other element
QueueTop(q) == {t \in q : \A u \in q : ~TaskCompare(t, u)}

(***************************************************************************)
(* Condition variable: waking a set of blocked threads.                    *)
(***************************************************************************)
WakeW(set) == [i \in WorkerIds |-> IF W(i) \in set THEN "notified" ELSE wpc[i]]
WakeS(set) == [s \in Submitters |-> IF S(s) \in set THEN "notified" ELSE spc[s]]

(***************************************************************************)
(*                        TerrainStorageEngine                             *)
(*                                                                         *)
(* Coordinates are integers counted in a unit finer than the 7th decimal   *)
(* of a degree: Scale units make one unit of the last digit that           *)
(* generateKey prints.                                                     *)
(***************************************************************************)
Scale == 3
MaxBatchLen == 2

\* constructor arguments (db_manager, min_lon, min_lat, max_lon, max_lat,
\* grid_size, cache_capacity), scaled down
EngineConfig ==
    [min_lon |-> 0, min_lat |-> 0, max_lon |-> 4 * Scale, max_lat |-> 2 * Scale,
     grid_size |-> 2 * Scale, cache_capacity |-> 2]

min_lon_ == EngineConfig.min_lon
min_lat_ == EngineConfig.min_lat
max_lon_ == EngineConfig.max_lon
max_lat_ == EngineConfig.max_lat
grid_size_ == EngineConfig.grid_size

CeilDiv(a, b) == (a + b - 1) \div b
grid_cols_ == CeilDiv(max_lon_ - min_lon_, grid_size_)
grid_rows_ == CeilDiv(max_lat_ - min_lat_, grid_size_)

\* GridLRUCache(capacity): capacity > 0 ? capacity : 1000
capacity_ ==
    IF EngineConfig.cache_capacity > 0 THEN EngineConfig.cache_capacity ELSE 1000

Values == {"a", "b"}
NoValue == "none"

\* the points the callers use: two points that differ below the 7th decimal,
\* a point of the next grid cell, the maximum corner, and a point outside
PointA == <<0, 0>>
PointA2 == <<1, 0>>
PointB == <<grid_size_, 0>>
PointMax == <<max_lon_, max_lat_>>
PointOut == <<max_lon_ + 1, 0>>
Points == {PointA, PointA2, PointB, PointMax, PointOut}

\* the query rectangles <<min_lon, min_lat, max_lon, max_lat>>
Rects ==
    { <<min_lon_, min_lat_, max_lon_, max_lat_>>,
      <<min_lon_, min_lat_, grid_size_ - 1, min_lat_>>,
      <<grid_size_, min_lat_, max_lon_, min_lat_>> }

Max(a, b) == IF a > b THEN a ELSE b

isWithinBoundsNoMax(lon, lat) == lon >= min_lon_ /\ lat >= min_lat_

isWithinBounds(lon, lat) ==
    lon >= min_lon_ /\ lon <= max_lon_ /\ lat >= min_lat_ /\ lat <= max_lat_

lonToGridCol(lon) ==
    LET normalized == Max(min_lon_, Min(max_lon_, lon)) IN
    (normalized - min_lon_) \div grid_size_

latToGridRow(lat) ==
    LET normalized == Max(min_lat_, Min(max_lat_, lat)) IN
    (normalized - min_lat_) \div grid_size_

\* "G_RRR_CCC": for indices below 1000 the text determines <<row, col>>
formatGridId(row, col) == <<row, col>>

computeGridId(lon, lat) == formatGridId(latToGridRow(lat), lonToGridCol(lon))

\* std::fixed << std::setprecision(7): the nearest multiple of the last digit
Fmt7(x) == (2 * x + Scale) \div (2 * Scale)

\* std::stod of a printed coordinate
Stod(k) == k * Scale

\* grid_id | lon | lat
generateKey(lon, lat, grid_id) == <<grid_id, Fmt7(lon), Fmt7(lat)>>

\* parseKey: the coordinates printed in the key
parseKey(key) == <<Stod(key[2]), Stod(key[3])>>

KeyOf(p) == generateKey(p[1], p[2], computeGridId(p[1], p[2]))

MapPut(m, k, v) == [x \in (DOMAIN m) \cup {k} |-> IF x = k THEN v ELSE m[x]]
MapDel(m, k) == [x \in (DOMAIN m) \ {k} |-> m[x]]
EmptyMap == <<>>

\* db_manager_.rangeQuery(grid_id + "|", grid_id + "|~", cb): the keys that
\* start with the grid id
ScanGrid(db, grid_id) ==
    [k \in {x \in DOMAIN db : x[1] = grid_id} |-> db[k]]

(***************************************************************************)
(* GridLRUCache, as functions of (cache_map_, access_list_)                *)
(***************************************************************************)
RemoveFrom(seq, id) == SelectSeq(seq, LAMBDA x : x # id)

\* get: a hit moves the id to the front of access_list_
LruGetListNoPromote(cm, al, id) == al

LruGetList(cm, al, id) ==
    IF id \in DOMAIN cm THEN <<id>> \o RemoveFrom(al, id) ELSE al

\* put: replace, or evict access_list_.back() when full, then push_front
LruPutNoEvict(cm, al, id, item) ==
    [cm |-> MapPut(cm, id, item), al |-> <<id>> \o RemoveFrom(al, id)]

LruPut(cm, al, id, item) ==
    IF id \in DOMAIN cm
    THEN [cm |-> MapPut(cm, id, item), al |-> <<id>> \o RemoveFrom(al, id)]
    ELSE IF Cardinality(DOMAIN cm) >= capacity_
         THEN LET last == al[Len(al)] IN
              [cm |-> MapPut(MapDel(cm, last), id, item),
               al |-> <<id>> \o SubSeq(al, 1, Len(al) - 1)]
         ELSE [cm |-> MapPut(cm, id, item), al |-> <<id>> \o al]

\* loadGridToCache: scan the grid's key range and install the result
loadGridToCacheEmpty(cm, al, grid_id) == LruPut(cm, al, grid_id, EmptyMap)

loadGridToCache(cm, al, grid_id) == LruPut(cm, al, grid_id, ScanGrid(store, grid_id))

\* the engine before any call
TerrainIdle ==
    /\ store = EmptyMap
    /\ cache_map_ = EmptyMap
    /\ access_list_ = <<>>
    /\ lastOp = [op |-> "none"]
    /\ lastWrite = EmptyMap
    /\ written = [p \in Points |-> NoValue]
    /\ failed = FALSE

(***************************************************************************)
(* Client threads of the engine                                            *)
(***************************************************************************)
NumClients == 2
MaxCalls == 5
Clients == 1..NumClients

\* what a read that races with a write of the same unordered_map may yield
\* besides the values in play
Garbage == "garbage"

\* the locals of a call; `clean` records that no put or batchPut call has
\* been in progress since the call began
NoCall ==
    [op |-> "none", point |-> <<0, 0>>, key |-> <<>>, grid |-> <<>>,
     value |-> NoValue, ref |-> 0, after |-> "idle", found |-> FALSE,
     ret |-> NoValue, snap |-> EmptyMap, data |-> <<>>, idx |-> 0,
     batch |-> EmptyMap, raced |-> FALSE, clean |-> FALSE]

\* LevelDBManager(): initialized_(false), no database open
NoDb == "none"
Paths == {"db1", "db2"}

FacadeIdle ==
    /\ db_ = NoDb
    /\ db_path_ = ""
    /\ initialized_ = FALSE
    /\ disk = [d \in Paths |-> EmptyMap]
    /\ flog = <<>>

\* no TerrainStorageEngine constructor has been called
NoEngine == [outcome |-> "none"]

\* DBConnectionPool(max_conn, factory, max_idle, connection_timeout)
NumConnClients == 2
ConnClients == 1..NumConnClients
NoGet == [call |-> 0, full |-> FALSE, released |-> FALSE, active |-> {},
          idle |-> <<>>, ret |-> "none"]

ConnIdle ==
    /\ idle_connections_ = <<>>
    /\ active_connections_ = {}
    /\ pool_mutex_ = 0
    /\ pool_cv_ = {}
    /\ gpc = [c \in ConnClients |-> "idle"]
    /\ gloc = [c \in ConnClients |-> NoGet]
    /\ holds = [c \in ConnClients |-> {}]
    /\ nextConn = 0
    /\ gcalls = 0

SideIdle == FacadeIdle /\ engine = NoEngine /\ ConnIdle

\* no caller of the cache or the engine has done anything yet
ClientsIdle ==
    /\ SideIdle
    /\ touches = <<>>
    /\ cpc = [c \in Clients |-> "idle"]
    /\ cop = [c \in Clients |-> NoCall]
    /\ objid = EmptyMap
    /\ detached = EmptyMap
    /\ wrote = [p \in Points |-> {}]
    /\ calls = 0

(***************************************************************************)
(* The configurations and callers the pool is checked with.                *)
(***************************************************************************)
Cfg(m, lo, hi, cap) ==
    [mode |-> m, min_threads |-> lo, max_threads |-> hi, max_tasks |-> cap]

Env(n, k, ps, os, sd) ==
    [submitters |-> n, submits |-> k, priorities |-> ps, outcomes |-> os,
     shutdown |-> sd]

Scenarios ==
    { \* one FIXED worker, a queue of one, competing submitters
      [config |-> Cfg("FIXED", 1, 1, 1),
       env |-> Env(NumSubmitters, MaxSubmits, {NORMAL}, {"value", "exception"}, TRUE)],
      \* FIXED workers and a queue that holds mixed priorities
      [config |-> Cfg("FIXED", MaxThreadsBound, MaxThreadsBound, MaxTasksBound),
       env |-> Env(1, MaxSubmits, TaskPriority, {"value"}, FALSE)],
      \* CACHED: expansion, idle timeout and reaping
      [config |-> Cfg("CACHED", 1, MaxThreadsBound, 1),
       env |-> Env(NumSubmitters, MaxTasksBound, {NORMAL}, {"value"}, TRUE)] }

(***************************************************************************)
(* Constructor: min_threads workers, and the manager thread in CACHED mode *)
(***************************************************************************)
PoolBuilt(sc) ==
    /\ TerrainIdle
    /\ ClientsIdle
    /\ config_ = sc.config /\ env = sc.env
    /\ sdcalls = 0
    /\ running_ = TRUE
    /\ workers_ = [i \in 1..config_.min_threads |-> i]
    /\ task_queue_ = {}
    /\ queue_mutex_ = Free
    /\ waiters = {}
    /\ expired_workers_ = {}
    /\ stop_requested = FALSE
    /\ wpc = [i \in WorkerIds |-> IF i <= config_.min_threads THEN "loop" ELSE "unborn"]
    /\ wtask = [i \in WorkerIds |-> 0]
    /\ spc = [s \in Submitters |-> "idle"]
    /\ stask = [s \in Submitters |-> 0]
    /\ mpc = IF config_.mode = "CACHED" THEN "loop" ELSE "none"
    /\ sdpc = "idle"
    /\ sd_workers = <<>>
    /\ nextWorker = config_.min_threads
    /\ nextTask = 0
    /\ priority = [t \in Tasks |-> NORMAL]
    /\ tstate = [t \in Tasks |-> "none"]
    /\ queuedWith = [t \in Tasks |-> {}]
    /\ deqSeq = <<>>
    /\ startSeq = <<>>

PoolInit == \E sc \in Scenarios : PoolBuilt(sc)

(***************************************************************************)
(* submit(priority, f, args...)                                            *)
(***************************************************************************)
\* task_queue_.push({priority, ...}) followed by the end of the locked scope
PushAndUnlock(s, t) ==
    /\ task_queue_' = task_queue_ \cup {t}
    /\ tstate' = [tstate EXCEPT ![t] = "queued"]
    /\ queuedWith' = [queuedWith EXCEPT ![t] = task_queue_]
    /\ queue_mutex_' = Free
    /\ spc' = [spc EXCEPT ![s] = "notify"]

\* the predicate of wait_for: queue has space, or the pool stopped
SpaceOrStoppedOffByOne == Cardinality(task_queue_) <= config_.max_tasks \/ ~running_

SpaceOrStopped == Cardinality(task_queue_) < config_.max_tasks \/ ~running_

\* packaged_task and future are created, the lock is taken, running_ is checked
SubmitEnter(s) ==
    /\ spc[s] = "idle"
    /\ s <= env.submitters
    /\ nextTask < env.submits
    /\ queue_mutex_ = Free
    /\ \E p \in env.priorities :
          LET t == nextTask + 1 IN
          /\ nextTask' = t
          /\ priority' = [priority EXCEPT ![t] = p]
          /\ IF ~running_
             THEN /\ tstate' = [tstate EXCEPT ![t] = "shutdown_error"]
                  /\ UNCHANGED <<spc, stask, queue_mutex_>>
             ELSE /\ tstate' = [tstate EXCEPT ![t] = "created"]
                  /\ spc' = [spc EXCEPT ![s] = "locked"]
                  /\ stask' = [stask EXCEPT ![s] = t]
                  /\ queue_mutex_' = S(s)
    /\ UNCHANGED <<terrainVars, clientVars, sdcalls, config_, env, running_, workers_, task_queue_, waiters,
                   expired_workers_, stop_requested, wpc, wtask, mpc, sdpc,
                   sd_workers, nextWorker, queuedWith, deqSeq, startSeq>>

\* if (size >= max_tasks) wait_for(...) ; push
SubmitCheckFull(s) ==
    /\ spc[s] = "locked"
    /\ IF Cardinality(task_queue_) >= config_.max_tasks /\ ~SpaceOrStopped
       THEN /\ spc' = [spc EXCEPT ![s] = "prewait"]
            /\ UNCHANGED <<task_queue_, tstate, queuedWith, queue_mutex_>>
       ELSE PushAndUnlock(s, stask[s])
    /\ UNCHANGED <<terrainVars, clientVars, sdcalls, config_, env, running_, workers_, waiters, expired_workers_,
                   stop_requested, wpc, wtask, stask, mpc, sdpc, sd_workers,
                   nextWorker, nextTask, priority, deqSeq, startSeq>>

\* the wait inside wait_for: the mutex is released and the thread blocks
SubmitBlock(s) ==
    /\ spc[s] = "prewait"
    /\ spc' = [spc EXCEPT ![s] = "waiting"]
    /\ waiters' = waiters \cup {S(s)}
    /\ queue_mutex_' = Free
    /\ UNCHANGED <<terrainVars, clientVars, sdcalls, config_, env, running_, workers_, task_queue_, expired_workers_,
                   stop_requested, wpc, wtask, stask, mpc, sdpc, sd_workers,
                   nextWorker, nextTask, priority, tstate, queuedWith, deqSeq,
                   startSeq>>

\* the one second of wait_for elapses
SubmitTimeout(s) ==
    /\ spc[s] = "waiting"
    /\ spc' = [spc EXCEPT ![s] = "timedout"]
    /\ waiters' = waiters \ {S(s)}
    /\ UNCHANGED <<terrainVars, clientVars, sdcalls, config_, env, running_, workers_, task_queue_, queue_mutex_,
                   expired_workers_, stop_requested, wpc, wtask, stask, mpc,
                   sdpc, sd_workers, nextWorker, nextTask, priority, tstate,
                   queuedWith, deqSeq, startSeq>>

\* the woken submitter re-locks and wait_for evaluates its predicate
SubmitReacquire(s) ==
    /\ spc[s] \in {"notified", "timedout"}
    /\ queue_mutex_ = Free
    /\ IF SpaceOrStopped
       THEN /\ PushAndUnlock(s, stask[s])
            /\ UNCHANGED <<stask>>
       ELSE IF spc[s] = "timedout"
            THEN \* throw "Task queue full, submit timeout"
                 /\ tstate' = [tstate EXCEPT ![stask[s]] = "full_error"]
                 /\ spc' = [spc EXCEPT ![s] = "idle"]
                 /\ stask' = [stask EXCEPT ![s] = 0]
                 /\ UNCHANGED <<task_queue_, queuedWith, queue_mutex_>>
            ELSE /\ spc' = [spc EXCEPT ![s] = "prewait"]
                 /\ queue_mutex_' = S(s)
                 /\ UNCHANGED <<task_queue_, tstate, queuedWith, stask>>
    /\ UNCHANGED <<terrainVars, clientVars, sdcalls, config_, env, running_, workers_, waiters, expired_workers_,
                   stop_requested, wpc, wtask, mpc, sdpc, sd_workers,
                   nextWorker, nextTask, priority, deqSeq, startSeq>>

\* task_available_.notify_one() after the locked scope
SubmitNotify(s) ==
    /\ spc[s] = "notify"
    /\ IF waiters = {}
       THEN /\ spc' = [spc EXCEPT ![s] = "should_expand"]
            /\ UNCHANGED <<waiters, wpc>>
       ELSE \E th \in waiters :
               /\ waiters' = waiters \ {th}
               /\ wpc' = WakeW({th})
               /\ spc' = [WakeS({th}) EXCEPT ![s] = "should_expand"]
    /\ UNCHANGED <<terrainVars, clientVars, sdcalls, config_, env, running_, workers_, task_queue_, queue_mutex_,
                   expired_workers_, stop_requested, wtask, stask, mpc, sdpc,
                   sd_workers, nextWorker, nextTask, priority, tstate,
                   queuedWith, deqSeq, startSeq>>

(***************************************************************************)
(* should_expand / expand_workers / add_worker                             *)
(***************************************************************************)
should_expandAnyMode ==
    /\ running_
    /\ task_queue_ # {}
    /\ Len(workers_) < config_.max_threads

should_expand ==
    /\ config_.mode = "CACHED"
    /\ running_
    /\ task_queue_ # {}
    /\ Len(workers_) < config_.max_threads

\* the number of workers expand_workers adds
ExpandNeededNoCap == Cardinality(task_queue_)

ExpandNeeded ==
    Min(Cardinality(task_queue_), config_.max_threads - Len(workers_))

ExpandWorkersUnchecked ==
    LET needed == ExpandNeeded
        ids == (nextWorker + 1)..(nextWorker + needed) IN
    /\ nextWorker + needed <= MaxWorkerIds
    /\ workers_' = workers_ \o [k \in 1..needed |-> nextWorker + k]
    /\ wpc' = [i \in WorkerIds |-> IF i \in ids THEN "loop" ELSE wpc[i]]
    /\ nextWorker' = nextWorker + needed

\* expand_workers under the lock: needed calls of add_worker
ExpandWorkers ==
    IF ~running_
    THEN UNCHANGED <<workers_, wpc, nextWorker>>
    ELSE LET needed == ExpandNeeded
             ids == (nextWorker + 1)..(nextWorker + needed) IN
         /\ nextWorker + needed <= MaxWorkerIds
         /\ workers_' = workers_ \o [k \in 1..needed |-> nextWorker + k]
         /\ wpc' = [i \in WorkerIds |-> IF i \in ids THEN "loop" ELSE wpc[i]]
         /\ nextWorker' = nextWorker + needed

SubmitShouldExpand(s) ==
    /\ spc[s] = "should_expand"
    /\ (config_.mode = "CACHED" /\ running_) => queue_mutex_ = Free
    /\ spc' = [spc EXCEPT ![s] = IF should_expand THEN "expand" ELSE "idle"]
    /\ stask' = [stask EXCEPT ![s] = IF should_expand THEN stask[s] ELSE 0]
    /\ UNCHANGED <<terrainVars, clientVars, sdcalls, config_, env, running_, workers_, task_queue_, queue_mutex_,
                   waiters, expired_workers_, stop_requested, wpc, wtask, mpc,
                   sdpc, sd_workers, nextWorker, nextTask, priority, tstate,
                   queuedWith, deqSeq, startSeq>>

SubmitExpand(s) ==
    /\ spc[s] = "expand"
    /\ queue_mutex_ = Free
    /\ ExpandWorkers
    /\ spc' = [spc EXCEPT ![s] = "idle"]
    /\ stask' = [stask EXCEPT ![s] = 0]
    /\ UNCHANGED <<terrainVars, clientVars, sdcalls, config_, env, running_, task_queue_, queue_mutex_, waiters,
                   expired_workers_, stop_requested, wtask, mpc, sdpc,
                   sd_workers, nextTask, priority, tstate, queuedWith, deqSeq,
                   startSeq>>

(***************************************************************************)
(* worker_routine                                                          *)
(***************************************************************************)
\* while (running_)
WorkerLoop(w) ==
    /\ wpc[w] = "loop"
    /\ wpc' = [wpc EXCEPT ![w] = IF running_ THEN "lock" ELSE "exited"]
    /\ UNCHANGED <<terrainVars, clientVars, sdcalls, config_, env, running_, workers_, task_queue_, queue_mutex_,
                   waiters, expired_workers_, stop_requested, wtask, spc, stask,
                   mpc, sdpc, sd_workers, nextWorker, nextTask, priority,
                   tstate, queuedWith, deqSeq, startSeq>>

\* Holding the lock: the wait condition of either mode (CACHED: the while
\* around wait_until; FIXED: the predicate of wait), then lines 238-246.
WorkerUnderLockKeepsLock(w) ==
    IF task_queue_ = {} /\ running_
    THEN /\ wpc' = [wpc EXCEPT ![w] = "prewait"]
         /\ queue_mutex_' = W(w)
         /\ UNCHANGED <<task_queue_, wtask, tstate, deqSeq>>
    ELSE IF task_queue_ = {}
         THEN /\ wpc' = [wpc EXCEPT ![w] = "exited"]
              /\ queue_mutex_' = Free
              /\ UNCHANGED <<task_queue_, wtask, tstate, deqSeq>>
         ELSE \E t \in QueueTop(task_queue_) :
                 /\ task_queue_' = task_queue_ \ {t}
                 /\ wtask' = [wtask EXCEPT ![w] = t]
                 /\ tstate' = [tstate EXCEPT ![t] = "dequeued"]
                 /\ deqSeq' = Append(deqSeq, t)
                 /\ wpc' = [wpc EXCEPT ![w] = "exec"]
                 /\ queue_mutex_' = W(w)

WorkerUnderLock(w) ==
    IF task_queue_ = {} /\ running_
    THEN \* about to block; the mutex is still held
         /\ wpc' = [wpc EXCEPT ![w] = "prewait"]
         /\ queue_mutex_' = W(w)
         /\ UNCHANGED <<task_queue_, wtask, tstate, deqSeq>>
    ELSE IF task_queue_ = {}
         THEN \* if (!running_ && task_queue_.empty()) return;
              /\ wpc' = [wpc EXCEPT ![w] = "exited"]
              /\ queue_mutex_' = Free
              /\ UNCHANGED <<task_queue_, wtask, tstate, deqSeq>>
         ELSE \* task = top(); pop();
              \E t \in QueueTop(task_queue_) :
                 /\ task_queue_' = task_queue_ \ {t}
                 /\ wtask' = [wtask EXCEPT ![w] = t]
                 /\ tstate' = [tstate EXCEPT ![t] = "dequeued"]
                 /\ deqSeq' = Append(deqSeq, t)
                 /\ wpc' = [wpc EXCEPT ![w] = "exec"]
                 /\ queue_mutex_' = Free

WorkerLock(w) ==
    /\ wpc[w] = "lock"
    /\ queue_mutex_ = Free
    /\ WorkerUnderLock(w)
    /\ UNCHANGED <<terrainVars, clientVars, sdcalls, config_, env, running_, workers_, waiters, expired_workers_,
                   stop_requested, spc, stask, mpc, sdpc, sd_workers,
                   nextWorker, nextTask, priority, queuedWith, startSeq>>

\* the wait itself: the mutex is released and the thread blocks
WorkerBlock(w) ==
    /\ wpc[w] = "prewait"
    /\ wpc' = [wpc EXCEPT ![w] = "waiting"]
    /\ waiters' = waiters \cup {W(w)}
    /\ queue_mutex_' = Free
    /\ UNCHANGED <<terrainVars, clientVars, sdcalls, config_, env, running_, workers_, task_queue_, expired_workers_,
                   stop_requested, wtask, spc, stask, mpc, sdpc, sd_workers,
                   nextWorker, nextTask, priority, tstate, queuedWith, deqSeq,
                   startSeq>>

\* CACHED: wait_until reaches timeout_point
WorkerTimeout(w) ==
    /\ config_.mode = "CACHED"
    /\ wpc[w] = "waiting"
    /\ wpc' = [wpc EXCEPT ![w] = "timedout"]
    /\ waiters' = waiters \ {W(w)}
    /\ UNCHANGED <<terrainVars, clientVars, sdcalls, config_, env, running_, workers_, task_queue_, queue_mutex_,
                   expired_workers_, stop_requested, wtask, spc, stask, mpc,
                   sdpc, sd_workers, nextWorker, nextTask, priority, tstate,
                   queuedWith, deqSeq, startSeq>>

\* the idle-timeout test of line 219
ExpireTest == Len(workers_) > config_.min_threads

\* the woken worker re-locks; on cv_status::timeout it may mark itself expired
WorkerReacquire(w) ==
    /\ wpc[w] \in {"notified", "timedout"}
    /\ queue_mutex_ = Free
    /\ IF wpc[w] = "timedout" /\ ExpireTest
       THEN /\ expired_workers_' = expired_workers_ \cup {w}
            /\ wpc' = [wpc EXCEPT ![w] = "exited"]
            /\ UNCHANGED <<task_queue_, wtask, tstate, deqSeq, queue_mutex_>>
       ELSE /\ WorkerUnderLock(w)
            /\ UNCHANGED expired_workers_
    /\ UNCHANGED <<terrainVars, clientVars, sdcalls, config_, env, running_, workers_, waiters, stop_requested, spc,
                   stask, mpc, sdpc, sd_workers, nextWorker, nextTask, priority,
                   queuedWith, startSeq>>

\* the task body starts (after the lock is released and the start is logged)
WorkerStart(w) ==
    /\ wpc[w] = "exec"
    /\ wpc' = [wpc EXCEPT ![w] = "running"]
    /\ tstate' = [tstate EXCEPT ![wtask[w]] = "running"]
    /\ startSeq' = Append(startSeq, wtask[w])
    /\ UNCHANGED <<terrainVars, clientVars, sdcalls, config_, env, running_, workers_, task_queue_, queue_mutex_,
                   waiters, expired_workers_, stop_requested, wtask, spc, stask,
                   mpc, sdpc, sd_workers, nextWorker, nextTask, priority,
                   queuedWith, deqSeq>>

WorkerFinishDies(w) ==
    /\ wpc[w] = "running"
    /\ \E r \in env.outcomes :
          /\ tstate' = [tstate EXCEPT ![wtask[w]] = r]
          /\ wpc' = [wpc EXCEPT ![w] = IF r = "exception" THEN "exited" ELSE "loop"]
    /\ wtask' = [wtask EXCEPT ![w] = 0]
    /\ UNCHANGED <<terrainVars, clientVars, sdcalls, config_, env, running_, workers_, task_queue_, queue_mutex_,
                   waiters, expired_workers_, stop_requested, spc, stask, mpc,
                   sdpc, sd_workers, nextWorker, nextTask, priority,
                   queuedWith, deqSeq, startSeq>>

\* the packaged_task returns: the future holds the value or the exception
WorkerFinish(w) ==
    /\ wpc[w] = "running"
    /\ \E r \in env.outcomes :
          tstate' = [tstate EXCEPT ![wtask[w]] = r]
    /\ wpc' = [wpc EXCEPT ![w] = "loop"]
    /\ wtask' = [wtask EXCEPT ![w] = 0]
    /\ UNCHANGED <<terrainVars, clientVars, sdcalls, config_, env, running_, workers_, task_queue_, queue_mutex_,
                   waiters, expired_workers_, stop_requested, spc, stask, mpc,
                   sdpc, sd_workers, nextWorker, nextTask, priority,
                   queuedWith, deqSeq, startSeq>>

\* a condition variable may wake a blocked thread without a notification
SpuriousWake ==
    /\ \E th \in waiters :
          /\ waiters' = waiters \ {th}
          /\ wpc' = WakeW({th})
          /\ spc' = WakeS({th})
    /\ UNCHANGED <<terrainVars, clientVars, sdcalls, config_, env, running_, workers_, task_queue_, queue_mutex_,
                   expired_workers_, stop_requested, wtask, stask, mpc, sdpc,
                   sd_workers, nextWorker, nextTask, priority, tstate,
                   queuedWith, deqSeq, startSeq>>

(***************************************************************************)
(* manage_workers / cleanup_expired_workers                                *)
(***************************************************************************)
\* while (!st.stop_requested()) { sleep_for(2s); ...
ManagerLoop ==
    /\ mpc = "loop"
    /\ mpc' = IF stop_requested THEN "exited" ELSE "cleanup"
    /\ UNCHANGED <<terrainVars, clientVars, sdcalls, config_, env, running_, workers_, task_queue_, queue_mutex_,
                   waiters, expired_workers_, stop_requested, wpc, wtask, spc,
                   stask, sdpc, sd_workers, nextWorker, nextTask, priority,
                   tstate, queuedWith, deqSeq, startSeq>>

\* the erase loop of lines 310-318 over the vector ws, front to back
RECURSIVE CleanupLoop(_, _)
CleanupLoop(ws, i) ==
    IF ~(i <= Len(ws) /\ Len(ws) > config_.min_threads) THEN ws
    ELSE IF ws[i] \in expired_workers_
         THEN CleanupLoop(SubSeq(ws, 1, i - 1) \o SubSeq(ws, i + 1, Len(ws)), i)
         ELSE CleanupLoop(ws, i + 1)

ManagerCleanup ==
    /\ mpc = "cleanup"
    /\ queue_mutex_ = Free
    /\ IF expired_workers_ = {}
       THEN UNCHANGED <<workers_, expired_workers_>>
       ELSE /\ workers_' = CleanupLoop(workers_, 1)
            /\ expired_workers_' = {}
    /\ mpc' = "should_expand"
    /\ UNCHANGED <<terrainVars, clientVars, sdcalls, config_, env, running_, task_queue_, queue_mutex_, waiters,
                   stop_requested, wpc, wtask, spc, stask, sdpc, sd_workers,
                   nextWorker, nextTask, priority, tstate, queuedWith, deqSeq,
                   startSeq>>

ManagerShouldExpand ==
    /\ mpc = "should_expand"
    /\ running_ => queue_mutex_ = Free
    /\ mpc' = IF should_expand THEN "expand" ELSE "loop"
    /\ UNCHANGED <<terrainVars, clientVars, sdcalls, config_, env, running_, workers_, task_queue_, queue_mutex_,
                   waiters, expired_workers_, stop_requested, wpc, wtask, spc,
                   stask, sdpc, sd_workers, nextWorker, nextTask, priority,
                   tstate, queuedWith, deqSeq, startSeq>>

ManagerExpand ==
    /\ mpc = "expand"
    /\ queue_mutex_ = Free
    /\ ExpandWorkers
    /\ mpc' = "loop"
    /\ UNCHANGED <<terrainVars, clientVars, sdcalls, config_, env, running_, task_queue_, queue_mutex_, waiters,
                   expired_workers_, stop_requested, wtask, spc, stask, sdpc,
                   sd_workers, nextTask, priority, tstate, queuedWith, deqSeq,
                   startSeq>>

(***************************************************************************)
(* shutdown                                                                *)
(***************************************************************************)
\* if (!running_.exchange(false)) return;
ShutdownCall ==
    /\ sdpc = "idle"
    /\ env.shutdown
    /\ running_' = FALSE
    /\ sdpc' = IF running_ THEN "notify" ELSE "done"
    /\ UNCHANGED <<terrainVars, clientVars, sdcalls, config_, env, workers_, task_queue_, queue_mutex_, waiters,
                   expired_workers_, stop_requested, wpc, wtask, spc, stask,
                   mpc, sd_workers, nextWorker, nextTask, priority, tstate,
                   queuedWith, deqSeq, startSeq>>

\* task_available_.notify_all(), issued without holding queue_mutex_
ShutdownNotifyAll ==
    /\ sdpc = "notify"
    /\ waiters' = {}
    /\ wpc' = WakeW(waiters)
    /\ spc' = WakeS(waiters)
    /\ sdpc' = "stop"
    /\ UNCHANGED <<terrainVars, clientVars, sdcalls, config_, env, running_, workers_, task_queue_, queue_mutex_,
                   expired_workers_, stop_requested, wtask, stask, mpc,
                   sd_workers, nextWorker, nextTask, priority, tstate,
                   queuedWith, deqSeq, startSeq>>

\* manager_thread_.request_stop() and join(), when joinable
ShutdownStopManager ==
    /\ sdpc = "stop"
    /\ stop_requested' = (mpc # "none")
    /\ sdpc' = "joinmgr"
    /\ UNCHANGED <<terrainVars, clientVars, sdcalls, config_, env, running_, workers_, task_queue_, queue_mutex_,
                   waiters, expired_workers_, wpc, wtask, spc, stask, mpc,
                   sd_workers, nextWorker, nextTask, priority, tstate,
                   queuedWith, deqSeq, startSeq>>

ShutdownJoinManager ==
    /\ sdpc = "joinmgr"
    /\ mpc \in {"none", "exited"}
    /\ sdpc' = "take"
    /\ UNCHANGED <<terrainVars, clientVars, sdcalls, config_, env, running_, workers_, task_queue_, queue_mutex_,
                   waiters, expired_workers_, stop_requested, wpc, wtask, spc,
                   stask, mpc, sd_workers, nextWorker, nextTask, priority,
                   tstate, queuedWith, deqSeq, startSeq>>

\* workers = std::move(workers_); expired_workers_.clear();  (under the lock)
ShutdownTake ==
    /\ sdpc = "take"
    /\ queue_mutex_ = Free
    /\ sd_workers' = workers_
    /\ workers_' = <<>>
    /\ expired_workers_' = {}
    /\ sdpc' = "join"
    /\ UNCHANGED <<terrainVars, clientVars, sdcalls, config_, env, running_, task_queue_, queue_mutex_, waiters,
                   stop_requested, wpc, wtask, spc, stask, mpc, nextWorker,
                   nextTask, priority, tstate, queuedWith, deqSeq, startSeq>>

\* for (auto& worker : workers) worker.join();
ShutdownJoin ==
    /\ sdpc = "join"
    /\ IF sd_workers = <<>>
       THEN /\ sdpc' = "done"
            /\ UNCHANGED sd_workers
       ELSE /\ wpc[Head(sd_workers)] = "exited"
            /\ sd_workers' = Tail(sd_workers)
            /\ UNCHANGED sdpc
    /\ UNCHANGED <<terrainVars, clientVars, sdcalls, config_, env, running_, workers_, task_queue_, queue_mutex_,
                   waiters, expired_workers_, stop_requested, wpc, wtask, spc,
                   stask, mpc, nextWorker, nextTask, priority, tstate,
                   queuedWith, deqSeq, startSeq>>

\* a later call of shutdown, from the destructor or from another thread:
\* running_.exchange(false) returns false and the call returns at once
ShutdownAgainNotifies ==
    /\ sdpc # "idle"
    /\ sdcalls < MaxShutdownCalls
    /\ ~running_
    /\ running_' = FALSE
    /\ sdcalls' = sdcalls + 1
    /\ waiters' = {}
    /\ wpc' = WakeW(waiters)
    /\ spc' = WakeS(waiters)
    /\ UNCHANGED <<terrainVars, clientVars, config_, env, workers_, task_queue_,
                   queue_mutex_, expired_workers_, stop_requested,
                   wtask, stask, mpc, sdpc, sd_workers, nextWorker,
                   nextTask, priority, tstate, queuedWith, deqSeq, startSeq>>

ShutdownAgain ==
    /\ sdpc # "idle"
    /\ sdcalls < MaxShutdownCalls
    /\ ~running_
    /\ running_' = FALSE
    /\ sdcalls' = sdcalls + 1
    /\ UNCHANGED <<terrainVars, clientVars, config_, env, workers_, task_queue_,
                   queue_mutex_, waiters, expired_workers_, stop_requested, wpc,
                   wtask, spc, stask, mpc, sdpc, sd_workers, nextWorker,
                   nextTask, priority, tstate, queuedWith, deqSeq, startSeq>>

(***************************************************************************)
(* The pool as a whole                                                     *)
(***************************************************************************)
\* the steps that occur in either mode
FixedNext ==
    \/ \E s \in Submitters : SubmitEnter(s)
    \/ \E s \in Submitters : SubmitCheckFull(s)
    \/ \E s \in Submitters : SubmitBlock(s)
    \/ \E s \in Submitters : SubmitTimeout(s)
    \/ \E s \in Submitters : SubmitReacquire(s)
    \/ \E s \in Submitters : SubmitNotify(s)
    \/ \E s \in Submitters : SubmitShouldExpand(s)
    \/ \E w \in WorkerIds : WorkerLoop(w)
    \/ \E w \in WorkerIds : WorkerLock(w)
    \/ \E w \in WorkerIds : WorkerBlock(w)
    \/ \E w \in WorkerIds : WorkerReacquire(w)
    \/ \E w \in WorkerIds : WorkerStart(w)
    \/ \E w \in WorkerIds : WorkerFinish(w)
    \/ ShutdownCall
    \/ ShutdownNotifyAll
    \/ ShutdownStopManager
    \/ ShutdownJoinManager
    \/ ShutdownTake
    \/ ShutdownJoin
    \/ SpuriousWake

\* the steps that occur in CACHED mode only
CachedNext ==
    \/ \E s \in Submitters : SubmitExpand(s)
    \/ \E w \in WorkerIds : WorkerTimeout(w)
    \/ ManagerLoop
    \/ ManagerCleanup
    \/ ManagerShouldExpand
    \/ ManagerExpand

PoolNext == FixedNext \/ CachedNext

FixedInit == PoolInit /\ config_.mode = "FIXED"

CachedInit == PoolInit /\ config_.mode = "CACHED"

(***************************************************************************)
(* Engine operations.  Each is one call, run to completion.                *)
(***************************************************************************)
GridIds == {computeGridId(p[1], p[2]) : p \in Points}

\* if (cache_item) cache_item->data[key] = value;
PutCacheForgets(cm, grid_id, key, value) == cm

PutCache(cm, grid_id, key, value) ==
    IF grid_id \in DOMAIN cm
    THEN MapPut(cm, grid_id, MapPut(cm[grid_id], key, value))
    ELSE cm

\* put(lon, lat, value)
Put(p, v) ==
    LET grid_id == computeGridId(p[1], p[2])
        key == generateKey(p[1], p[2], grid_id) IN
    IF ~isWithinBounds(p[1], p[2])
    THEN /\ failed' = TRUE
         /\ lastOp' = [op |-> "put", point |-> p, ok |-> FALSE]
         /\ UNCHANGED <<store, cache_map_, access_list_, lastWrite, written>>
    ELSE /\ access_list_' = LruGetList(cache_map_, access_list_, grid_id)
         /\ cache_map_' = PutCache(cache_map_, grid_id, key, v)
         /\ store' = MapPut(store, key, v)
         /\ lastWrite' = MapPut(lastWrite, key, v)
         /\ written' = [written EXCEPT ![p] = v]
         /\ lastOp' = [op |-> "put", point |-> p, ok |-> TRUE]
         /\ UNCHANGED failed

\* get(lon, lat, value)
Get(p) ==
    LET grid_id == computeGridId(p[1], p[2])
        key == generateKey(p[1], p[2], grid_id)
        hit == grid_id \in DOMAIN cache_map_
        al1 == LruGetList(cache_map_, access_list_, grid_id)
        loaded == loadGridToCache(cache_map_, al1, grid_id) IN
    /\ IF ~isWithinBounds(p[1], p[2])
       THEN /\ lastOp' = [op |-> "get", point |-> p, found |-> FALSE, value |-> NoValue,
                          resident |-> hit]
            /\ UNCHANGED <<cache_map_, access_list_>>
       ELSE IF hit /\ key \in DOMAIN cache_map_[grid_id]
       THEN /\ lastOp' = [op |-> "get", point |-> p, found |-> TRUE,
                          value |-> cache_map_[grid_id][key], resident |-> hit]
            /\ access_list_' = al1
            /\ UNCHANGED cache_map_
       ELSE IF key \in DOMAIN store
       THEN /\ lastOp' = [op |-> "get", point |-> p, found |-> TRUE, value |-> store[key],
                          resident |-> hit]
            /\ IF ~hit
               THEN cache_map_' = loaded.cm /\ access_list_' = loaded.al
               ELSE /\ cache_map_' = MapPut(cache_map_, grid_id,
                                            MapPut(cache_map_[grid_id], key, store[key]))
                    /\ access_list_' = al1
       ELSE /\ lastOp' = [op |-> "get", point |-> p, found |-> FALSE, value |-> NoValue,
                          resident |-> hit]
            /\ IF ~hit
               THEN cache_map_' = loaded.cm /\ access_list_' = loaded.al
               ELSE cache_map_' = cache_map_ /\ access_list_' = al1
    /\ UNCHANGED <<store, lastWrite, written, failed>>

\* the for loop of batchPut over data[i..]: bounds check, cache update, batch.put
RECURSIVE BatchLoop(_, _, _, _, _)
BatchLoop(data, i, cm, al, batch) ==
    IF i > Len(data) THEN [ok |-> TRUE, cm |-> cm, al |-> al, batch |-> batch]
    ELSE LET p == data[i][1]
             v == data[i][2]
             grid_id == computeGridId(p[1], p[2])
             key == generateKey(p[1], p[2], grid_id) IN
         IF ~isWithinBounds(p[1], p[2])
         THEN [ok |-> FALSE, cm |-> cm, al |-> al, batch |-> batch]
         ELSE BatchLoop(data, i + 1, PutCache(cm, grid_id, key, v),
                        LruGetList(cm, al, grid_id), MapPut(batch, key, v))

RECURSIVE LastValues(_, _, _)
\* history: the last value every point of data[i..] receives
LastValues(data, i, w) ==
    IF i > Len(data) THEN w
    ELSE LastValues(data, i + 1, [w EXCEPT ![data[i][1]] = data[i][2]])

Merge(m, batch) ==
    [k \in (DOMAIN m) \cup (DOMAIN batch) |->
        IF k \in DOMAIN batch THEN batch[k] ELSE m[k]]

\* batchPut(data): the loop, then batch.commit()
BatchPutEager(data) ==
    \E r \in {BatchLoop(data, 1, cache_map_, access_list_, EmptyMap)} :
    /\ cache_map_' = r.cm
    /\ access_list_' = r.al
    /\ lastOp' = [op |-> "batchPut", data |-> data, ok |-> r.ok]
    /\ store' = Merge(store, r.batch)
    /\ IF r.ok
       THEN /\ lastWrite' = Merge(lastWrite, r.batch)
            /\ written' = LastValues(data, 1, written)
            /\ UNCHANGED failed
       ELSE /\ failed' = TRUE
            /\ UNCHANGED <<lastWrite, written>>

BatchPut(data) ==
    \E r \in {BatchLoop(data, 1, cache_map_, access_list_, EmptyMap)} :
    /\ cache_map_' = r.cm
    /\ access_list_' = r.al
    /\ lastOp' = [op |-> "batchPut", data |-> data, ok |-> r.ok]
    /\ IF r.ok
       THEN /\ store' = Merge(store, r.batch)
            /\ lastWrite' = Merge(lastWrite, r.batch)
            /\ written' = LastValues(data, 1, written)
            /\ UNCHANGED failed
       ELSE /\ failed' = TRUE
            /\ UNCHANGED <<store, lastWrite, written>>

\* the points of one cached grid that pass the rectangle test of processGrid
FilterGrid(data, r) ==
    { <<parseKey(k)[1], parseKey(k)[2], data[k]>> : k \in
        {x \in DOMAIN data :
            /\ parseKey(x)[1] >= r[1] /\ parseKey(x)[1] <= r[3]
            /\ parseKey(x)[2] >= r[2] /\ parseKey(x)[2] <= r[4]} }

\* processGrid for the grids cells[i..], in order
RECURSIVE ProcessGrids(_, _, _, _, _, _, _)
ProcessGrids(cells, i, r, cm, al, result, hits) ==
    IF i > Len(cells) THEN [cm |-> cm, al |-> al, result |-> result, hits |-> hits]
    ELSE LET grid_id == cells[i]
             hit == grid_id \in DOMAIN cm
             al1 == LruGetList(cm, al, grid_id)
             c == IF hit THEN [cm |-> cm, al |-> al1]
                  ELSE loadGridToCache(cm, al1, grid_id) IN
         ProcessGrids(cells, i + 1, r, c.cm, c.al,
                      result \cup FilterGrid(c.cm[grid_id], r),
                      IF hit THEN hits \cup {grid_id} ELSE hits)

\* the grids rangeQuery visits, row-major
RECURSIVE RowMajor(_, _, _, _)
RowMajor(row, col, r, acc) ==
    IF row > Min(grid_rows_ - 1, latToGridRow(r[4])) THEN acc
    ELSE IF col > Min(grid_cols_ - 1, lonToGridCol(r[3]))
         THEN RowMajor(row + 1, Max(0, lonToGridCol(r[1])), r, acc)
         ELSE RowMajor(row, col + 1, r, Append(acc, formatGridId(row, col)))

CoveredGrids(r) ==
    RowMajor(Max(0, latToGridRow(r[2])), Max(0, lonToGridCol(r[1])), r, <<>>)

\* rangeQuery(min_lon, min_lat, max_lon, max_lat, callback)
RangeQuery(r) ==
    \E cells \in {CoveredGrids(r)} :
    \E res \in {ProcessGrids(cells, 1, r, cache_map_, access_list_, {}, {})} :
    /\ cache_map_' = res.cm
    /\ access_list_' = res.al
    /\ lastOp' = [op |-> "rangeQuery", rect |-> r, result |-> res.result,
                  hits |-> res.hits, grids |-> cells]
    /\ UNCHANGED <<store, lastWrite, written, failed>>

preloadGrid(grid_id) ==
    \E c \in {loadGridToCache(cache_map_, access_list_, grid_id)} :
    /\ cache_map_' = c.cm
    /\ access_list_' = c.al
    /\ lastOp' = [op |-> "preloadGrid", grid |-> grid_id]
    /\ UNCHANGED <<store, lastWrite, written, failed>>

\* cache_.remove(grid_id)
evictGridFromCache(grid_id) ==
    /\ cache_map_' = MapDel(cache_map_, grid_id)
    /\ access_list_' = RemoveFrom(access_list_, grid_id)
    /\ lastOp' = [op |-> "evictGridFromCache", grid |-> grid_id]
    /\ UNCHANGED <<store, lastWrite, written, failed>>

clearCache ==
    /\ cache_map_' = EmptyMap
    /\ access_list_' = <<>>
    /\ lastOp' = [op |-> "clearCache"]
    /\ UNCHANGED <<store, lastWrite, written, failed>>

\* the batches the callers use: a single point, two grids, two points that
\* share a key, and batches with an out-of-bounds point first or last
AllBatches ==
    { << <<PointA, "a">> >>,
      << <<PointA, "b">>, <<PointB, "b">> >>,
      << <<PointA, "a">>, <<PointA2, "b">> >>,
      << <<PointMax, "a">>, <<PointB, "a">> >>,
      << <<PointB, "a">>, <<PointOut, "a">> >>,
      << <<PointOut, "b">>, <<PointA, "b">> >> }
Batches == {b \in AllBatches : Len(b) <= MaxBatchLen}

TerrainNext ==
    \/ \E p \in Points, v \in Values : Put(p, v) /\ UNCHANGED <<poolVars, clientVars>>
    \/ \E p \in Points : Get(p) /\ UNCHANGED <<poolVars, clientVars>>
    \/ \E data \in Batches : BatchPut(data) /\ UNCHANGED <<poolVars, clientVars>>
    \/ \E r \in Rects : RangeQuery(r) /\ UNCHANGED <<poolVars, clientVars>>
    \/ \E g \in GridIds : preloadGrid(g) /\ UNCHANGED <<poolVars, clientVars>>
    \/ \E g \in GridIds : evictGridFromCache(g) /\ UNCHANGED <<poolVars, clientVars>>
    \/ clearCache /\ UNCHANGED <<poolVars, clientVars>>

\* the pool built and idle, with one FIXED worker
PoolIdle ==
    /\ PoolInit
    /\ config_ = Cfg("FIXED", 1, 1, 1)

TerrainSpec == PoolIdle /\ [][TerrainNext]_vars

(***************************************************************************)
(* GridLRUCache called directly: get and put only, at most MaxTouches      *)
(* touches.                                                                *)
(***************************************************************************)
MaxTouches == 5

\* the items the callers put: an empty grid and a grid with one point
CacheItems == {EmptyMap, [k \in {KeyOf(PointA)} |-> "a"]}

\* GridLRUCache::get(grid_id)
CacheGet(id) ==
    /\ Len(touches) < MaxTouches
    /\ access_list_' = LruGetList(cache_map_, access_list_, id)
    /\ touches' = IF id \in DOMAIN cache_map_ THEN Append(touches, id) ELSE touches
    /\ lastOp' = [op |-> "cache.get", grid |-> id, hit |-> id \in DOMAIN cache_map_]
    /\ UNCHANGED <<store, cache_map_, lastWrite, written, failed>>

\* GridLRUCache::put(grid_id, item)
CachePut(id, item) ==
    /\ Len(touches) < MaxTouches
    /\ \E c \in {LruPut(cache_map_, access_list_, id, item)} :
          /\ cache_map_' = c.cm
          /\ access_list_' = c.al
    /\ touches' = Append(touches, id)
    /\ lastOp' = [op |-> "cache.put", grid |-> id,
                  full |-> Cardinality(DOMAIN cache_map_) >= capacity_]
    /\ UNCHANGED <<store, lastWrite, written, failed>>

LruNext ==
    \/ \E id \in GridIds : CacheGet(id) /\ UNCHANGED <<poolVars, concVars, sideVars>>
    \/ \E id \in GridIds, item \in CacheItems :
          CachePut(id, item) /\ UNCHANGED <<poolVars, concVars, sideVars>>

LruSpec == PoolIdle /\ [][LruNext]_vars

(***************************************************************************)
(* The engine called by concurrent threads.  Only GridLRUCache's methods   *)
(* run under its mutex; the accesses to GridCacheItem::data and the store  *)
(* calls are separate steps.                                               *)
(***************************************************************************)
\* the points and grids the threads use (points with distinct keys)
ConcPoints == {PointA, PointB}
ConcGrids == {computeGridId(p[1], p[2]) : p \in ConcPoints}
ConcBatches ==
    { << <<PointA, "b">>, <<PointB, "b">> >>,
      << <<PointB, "a">>, <<PointOut, "a">> >> }

\* heap objects: enough for the resident items, one per caller, and a new one
ObjIds == 1..(capacity_ + NumClients + 1)

Refs(cops) == {cops[c].ref : c \in Clients} \ {0}

\* shared_ptr reference counting: a dropped item lives while a caller holds it
Collect(det, cops) == [i \in (DOMAIN det) \cap Refs(cops) |-> det[i]]

IsResident(id) == \E g \in DOMAIN objid : objid[g] = id
GridOf(id) == CHOOSE g \in DOMAIN objid : objid[g] = id
ObjData(id) == IF IsResident(id) THEN cache_map_[GridOf(id)] ELSE detached[id]

\* std::make_shared<GridCacheItem>()
FreshObj ==
    CHOOSE i \in ObjIds :
        /\ i \notin {objid[g] : g \in DOMAIN objid} \cup DOMAIN detached \cup Refs(cop)
        /\ \A j \in 1..(i - 1) :
              j \in {objid[g] : g \in DOMAIN objid} \cup DOMAIN detached \cup Refs(cop)

\* cache_.get(grid_id): the item's object, or 0 for nullptr
CacheRef(grid_id) == IF grid_id \in DOMAIN cache_map_ THEN objid[grid_id] ELSE 0

\* the items the cache drops when its map changes from cache_map_ to cm
\* with object ids oi
Dropped(cm, oi) ==
    {g \in DOMAIN cache_map_ : g \notin DOMAIN cm \/ oi[g] # objid[g]}

Detach(cm, oi) ==
    [i \in (DOMAIN detached) \cup {objid[g] : g \in Dropped(cm, oi)} |->
        IF i \in DOMAIN detached THEN detached[i]
        ELSE cache_map_[CHOOSE g \in Dropped(cm, oi) : objid[g] = i]]

\* a put or batchPut call is in progress
WriterActive ==
    \E c \in Clients : cpc[c] # "idle" /\ cop[c].op \in {"put", "batchPut"}

\* a writer starts: no call in progress is clean any more
Unclean(cops) == [c \in Clients |-> [cops[c] EXCEPT !.clean = FALSE]]

\* the call returns: its locals die, its result stays
Return(rec) ==
    [NoCall EXCEPT !.op = rec.op, !.point = rec.point, !.key = rec.key,
                   !.grid = rec.grid, !.found = rec.found, !.ret = rec.ret,
                   !.clean = rec.clean]

\* put(lon, lat, value) up to cache_.get(grid_id)
PutCall(c, p, v) ==
    /\ cpc[c] = "idle" /\ calls < MaxCalls
    /\ LET grid_id == computeGridId(p[1], p[2])
           key == generateKey(p[1], p[2], grid_id)
           ref == CacheRef(grid_id)
           rec == [NoCall EXCEPT !.op = "put", !.point = p, !.key = key,
                                 !.grid = grid_id, !.value = v, !.ref = ref,
                                 !.after = "put_db"] IN
       /\ access_list_' = LruGetList(cache_map_, access_list_, grid_id)
       /\ cop' = [Unclean(cop) EXCEPT ![c] = rec]
       /\ cpc' = [cpc EXCEPT ![c] = IF ref # 0 THEN "write" ELSE "put_db"]
    /\ wrote' = [wrote EXCEPT ![p] = @ \cup {v}]
    /\ calls' = calls + 1
    /\ UNCHANGED <<store, cache_map_, objid, detached>>

\* cache_item->data[key] = value begins: the write is not atomic
WriteBegin(c) ==
    /\ cpc[c] = "write"
    /\ LET others == {d \in Clients \ {c} :
                         cpc[d] = "writing" /\ cop[d].ref = cop[c].ref} IN
       cop' = [d \in Clients |->
                  IF others # {} /\ d \in others \cup {c}
                  THEN [cop[d] EXCEPT !.raced = TRUE] ELSE cop[d]]
    /\ cpc' = [cpc EXCEPT ![c] = "writing"]
    /\ UNCHANGED <<store, cache_map_, access_list_, objid, detached, wrote, calls>>

\* cache_item->data[key] = value ends; two overlapping writes of one
\* unordered_map are a data race and leave any value
WriteEnd(c) ==
    /\ cpc[c] = "writing"
    /\ \E v \in (IF cop[c].raced THEN Values \cup {Garbage} ELSE {cop[c].value}) :
          LET id == cop[c].ref IN
          IF IsResident(id)
          THEN /\ cache_map_' = MapPut(cache_map_, GridOf(id),
                                       MapPut(cache_map_[GridOf(id)], cop[c].key, v))
               /\ cop' = [cop EXCEPT ![c] =
                             IF cop[c].after = "idle" THEN Return(cop[c])
                             ELSE [cop[c] EXCEPT !.raced = FALSE, !.ref = 0]]
               /\ detached' = Collect(detached, cop')
          ELSE /\ cop' = [cop EXCEPT ![c] =
                             IF cop[c].after = "idle" THEN Return(cop[c])
                             ELSE [cop[c] EXCEPT !.raced = FALSE, !.ref = 0]]
               /\ detached' = Collect(MapPut(detached, id,
                                             MapPut(detached[id], cop[c].key, v)), cop')
               /\ UNCHANGED cache_map_
    /\ cpc' = [cpc EXCEPT ![c] = cop[c].after]
    /\ UNCHANGED <<store, access_list_, objid, wrote, calls>>

\* db_manager_.put(key, value, sync)
PutStore(c) ==
    /\ cpc[c] = "put_db"
    /\ store' = MapPut(store, cop[c].key, cop[c].value)
    /\ cop' = [cop EXCEPT ![c] = Return(cop[c])]
    /\ cpc' = [cpc EXCEPT ![c] = "idle"]
    /\ detached' = Collect(detached, cop')
    /\ UNCHANGED <<cache_map_, access_list_, objid, wrote, calls>>

\* get(lon, lat, value) up to cache_.get(grid_id)
GetCall(c, p) ==
    /\ cpc[c] = "idle" /\ calls < MaxCalls
    /\ LET grid_id == computeGridId(p[1], p[2])
           key == generateKey(p[1], p[2], grid_id)
           ref == CacheRef(grid_id)
           rec == [NoCall EXCEPT !.op = "get", !.point = p, !.key = key,
                                 !.grid = grid_id, !.ref = ref,
                                 !.clean = ~WriterActive] IN
       /\ access_list_' = LruGetList(cache_map_, access_list_, grid_id)
       /\ cop' = [cop EXCEPT ![c] = rec]
       /\ cpc' = [cpc EXCEPT ![c] = IF ref # 0 THEN "get_find" ELSE "get_db"]
    /\ calls' = calls + 1
    /\ UNCHANGED <<store, cache_map_, objid, detached, wrote>>

\* cache_item->data.find(key); a find that overlaps a write of the same
\* unordered_map is a data race and yields anything
GetFind(c) ==
    /\ cpc[c] = "get_find"
    /\ LET id == cop[c].ref
           data == ObjData(id)
           racing == \E d \in Clients \ {c} : cpc[d] = "writing" /\ cop[d].ref = id
           present == IF cop[c].key \in DOMAIN data THEN {data[cop[c].key]} ELSE {}
           hits == IF racing
                   THEN present \cup {Garbage}
                        \cup {cop[d].value : d \in {e \in Clients \ {c} :
                                   cpc[e] = "writing" /\ cop[e].ref = id}}
                   ELSE present IN
       \/ /\ \E v \in hits :
                cop' = [cop EXCEPT ![c] = Return([cop[c] EXCEPT !.found = TRUE, !.ret = v])]
          /\ cpc' = [cpc EXCEPT ![c] = "idle"]
          /\ detached' = Collect(detached, cop')
       \/ /\ racing \/ hits = {}
          /\ cpc' = [cpc EXCEPT ![c] = "get_db"]
          /\ UNCHANGED <<cop, detached>>
    /\ UNCHANGED <<store, cache_map_, access_list_, objid, wrote, calls>>

\* db_manager_.get(key, value) and the branch on its result
GetStore(c) ==
    /\ cpc[c] = "get_db"
    /\ IF cop[c].key \in DOMAIN store
       THEN IF cop[c].ref = 0
            THEN /\ cop' = [cop EXCEPT ![c].found = TRUE, ![c].ret = store[cop[c].key]]
                 /\ cpc' = [cpc EXCEPT ![c] = "load_scan"]
            ELSE /\ cop' = [cop EXCEPT ![c].found = TRUE, ![c].ret = store[cop[c].key],
                                       ![c].value = store[cop[c].key],
                                       ![c].after = "idle"]
                 /\ cpc' = [cpc EXCEPT ![c] = "write"]
       ELSE IF cop[c].ref = 0
            THEN /\ cop' = [cop EXCEPT ![c].found = FALSE]
                 /\ cpc' = [cpc EXCEPT ![c] = "load_scan"]
            ELSE /\ cop' = [cop EXCEPT ![c] = Return([cop[c] EXCEPT !.found = FALSE])]
                 /\ cpc' = [cpc EXCEPT ![c] = "idle"]
    /\ detached' = Collect(detached, cop')
    /\ UNCHANGED <<store, cache_map_, access_list_, objid, wrote, calls>>

\* loadGridToCache: db_manager_.rangeQuery over the grid's keys
LoadScan(c) ==
    /\ cpc[c] = "load_scan"
    /\ cop' = [cop EXCEPT ![c].snap = ScanGrid(store, cop[c].grid)]
    /\ cpc' = [cpc EXCEPT ![c] = "load_put"]
    /\ UNCHANGED <<store, cache_map_, access_list_, objid, detached, wrote, calls>>

\* loadGridToCache: cache_.put(grid_id, cache_item), and the call returns
LoadPutKeepsResident(c) ==
    /\ cpc[c] = "load_put"
    /\ \E r \in {IF cop[c].grid \in DOMAIN cache_map_
                  THEN [cm |-> cache_map_,
                        al |-> LruGetList(cache_map_, access_list_, cop[c].grid)]
                  ELSE LruPut(cache_map_, access_list_, cop[c].grid, cop[c].snap)} :
       \E oi \in {[g \in DOMAIN r.cm |->
                      IF g = cop[c].grid /\ g \notin DOMAIN cache_map_
                      THEN FreshObj ELSE objid[g]]} :
          /\ cache_map_' = r.cm
          /\ access_list_' = r.al
          /\ objid' = oi
          /\ cop' = [cop EXCEPT ![c] = Return(cop[c])]
          /\ detached' = Collect(Detach(r.cm, oi), cop')
    /\ cpc' = [cpc EXCEPT ![c] = "idle"]
    /\ UNCHANGED <<store, wrote, calls>>

LoadPut(c) ==
    /\ cpc[c] = "load_put"
    /\ \E r \in {LruPut(cache_map_, access_list_, cop[c].grid, cop[c].snap)} :
       \E oi \in {[g \in DOMAIN r.cm |->
                      IF g = cop[c].grid THEN FreshObj ELSE objid[g]]} :
          /\ cache_map_' = r.cm
          /\ access_list_' = r.al
          /\ objid' = oi
          /\ cop' = [cop EXCEPT ![c] = Return(cop[c])]
          /\ detached' = Collect(Detach(r.cm, oi), cop')
    /\ cpc' = [cpc EXCEPT ![c] = "idle"]
    /\ UNCHANGED <<store, wrote, calls>>

\* preloadGrid(grid_id)
PreloadCall(c, g) ==
    /\ cpc[c] = "idle" /\ calls < MaxCalls
    /\ cop' = [cop EXCEPT ![c] = [NoCall EXCEPT !.op = "preloadGrid", !.grid = g,
                                                !.clean = ~WriterActive]]
    /\ cpc' = [cpc EXCEPT ![c] = "load_scan"]
    /\ calls' = calls + 1
    /\ UNCHANGED <<store, cache_map_, access_list_, objid, detached, wrote>>

\* evictGridFromCache(grid_id): cache_.remove(grid_id)
EvictCall(c, g) ==
    /\ cpc[c] = "idle" /\ calls < MaxCalls
    /\ cache_map_' = MapDel(cache_map_, g)
    /\ access_list_' = RemoveFrom(access_list_, g)
    /\ objid' = MapDel(objid, g)
    /\ cop' = [cop EXCEPT ![c] = [NoCall EXCEPT !.op = "evictGridFromCache", !.grid = g]]
    /\ detached' = Collect(Detach(cache_map_', objid'), cop')
    /\ calls' = calls + 1
    /\ UNCHANGED <<store, cpc, wrote>>

\* batchPut(data): createBatch
BatchCall(c, data) ==
    /\ cpc[c] = "idle" /\ calls < MaxCalls
    /\ cop' = [Unclean(cop) EXCEPT ![c] =
                  [NoCall EXCEPT !.op = "batchPut", !.data = data, !.idx = 1]]
    /\ cpc' = [cpc EXCEPT ![c] = "batch_item"]
    /\ calls' = calls + 1
    /\ UNCHANGED <<store, cache_map_, access_list_, objid, detached, wrote>>

\* batchPut: one round of the loop up to cache_.get, or batch.commit()
BatchItem(c) ==
    /\ cpc[c] = "batch_item"
    /\ IF cop[c].idx > Len(cop[c].data)
       THEN /\ store' = Merge(store, cop[c].batch)
            /\ cop' = [cop EXCEPT ![c] = Return([cop[c] EXCEPT !.found = TRUE])]
            /\ cpc' = [cpc EXCEPT ![c] = "idle"]
            /\ UNCHANGED <<access_list_, wrote>>
       ELSE LET p == cop[c].data[cop[c].idx][1]
                v == cop[c].data[cop[c].idx][2]
                grid_id == computeGridId(p[1], p[2])
                key == generateKey(p[1], p[2], grid_id)
                ref == CacheRef(grid_id) IN
            IF ~isWithinBounds(p[1], p[2])
            THEN /\ cop' = [cop EXCEPT ![c] = Return([cop[c] EXCEPT !.found = FALSE])]
                 /\ cpc' = [cpc EXCEPT ![c] = "idle"]
                 /\ UNCHANGED <<store, access_list_, wrote>>
            ELSE /\ access_list_' = LruGetList(cache_map_, access_list_, grid_id)
                 /\ cop' = [cop EXCEPT ![c].key = key, ![c].value = v, ![c].ref = ref,
                                       ![c].idx = @ + 1, ![c].after = "batch_item",
                                       ![c].batch = MapPut(@, key, v)]
                 /\ cpc' = [cpc EXCEPT ![c] = IF ref # 0 THEN "write" ELSE "batch_item"]
                 /\ wrote' = [wrote EXCEPT ![p] = @ \cup {v}]
                 /\ UNCHANGED store
    /\ detached' = Collect(detached, cop')
    /\ UNCHANGED <<cache_map_, objid, calls>>

\* what a step of an engine caller leaves alone: the pool and the histories
\* of the sequential callers
concRest == <<poolVars, touches, sideVars, lastOp, lastWrite, written, failed>>

ConcNext ==
    \/ \E c \in Clients, p \in ConcPoints, v \in Values : PutCall(c, p, v) /\ UNCHANGED concRest
    \/ \E c \in Clients : WriteBegin(c) /\ UNCHANGED concRest
    \/ \E c \in Clients : WriteEnd(c) /\ UNCHANGED concRest
    \/ \E c \in Clients : PutStore(c) /\ UNCHANGED concRest
    \/ \E c \in Clients, p \in ConcPoints : GetCall(c, p) /\ UNCHANGED concRest
    \/ \E c \in Clients : GetFind(c) /\ UNCHANGED concRest
    \/ \E c \in Clients : GetStore(c) /\ UNCHANGED concRest
    \/ \E c \in Clients : LoadScan(c) /\ UNCHANGED concRest
    \/ \E c \in Clients : LoadPut(c) /\ UNCHANGED concRest
    \/ \E c \in Clients, g \in ConcGrids : PreloadCall(c, g) /\ UNCHANGED concRest
    \/ \E c \in Clients, g \in ConcGrids : EvictCall(c, g) /\ UNCHANGED concRest
    \/ \E c \in Clients, data \in ConcBatches : BatchCall(c, data) /\ UNCHANGED concRest
    \/ \E c \in Clients : BatchItem(c) /\ UNCHANGED concRest

ConcSpec == PoolIdle /\ [][ConcNext]_vars

(***************************************************************************)
(* LevelDBManager: the facade over one LevelDB database, called by one     *)
(* thread at a time, at most MaxFacadeCalls calls.                         *)
(***************************************************************************)
MaxFacadeCalls == 4

FacadeKeys == {"k"}
FacadeValues == {"a", "b"}

\* db_->... with db_ null dereferences a null pointer, which is undefined:
\* the process is killed, or the call goes on with no defined result
NullDeref == {"crash", "undefined"}

\* the process has been killed
Crashed == flog # <<>> /\ flog[Len(flog)].outcome = "crash"

CanCall == Len(flog) < MaxFacadeCalls /\ ~Crashed

\* one more call in the history; init is initialized_ when the call began
Logged(op, outcome) ==
    Append(flog, [op |-> op, init |-> initialized_, outcome |-> outcome])

\* initialize: if (db_) throw
AlreadyOpenNever == FALSE

AlreadyOpen == db_ # NoDb

\* initialize(db_path, options): leveldb::DB::Open may fail
Initialize(path) ==
    /\ CanCall
    /\ IF AlreadyOpen
       THEN /\ flog' = Logged("initialize", "already_initialized")
            /\ UNCHANGED <<db_, db_path_, initialized_, disk>>
       ELSE \/ /\ flog' = Logged("initialize", "open_failed")
               /\ UNCHANGED <<db_, db_path_, initialized_, disk>>
            \/ /\ db_' = path
               /\ db_path_' = path
               /\ initialized_' = TRUE
               /\ flog' = Logged("initialize", "ok")
               /\ UNCHANGED disk

\* shutdown(): if (db_) { db_.reset(); initialized_ = false; }
Shutdown ==
    /\ CanCall
    /\ IF db_ # NoDb
       THEN /\ db_' = NoDb
            /\ initialized_' = FALSE
       ELSE UNCHANGED <<db_, initialized_>>
    /\ flog' = Logged("shutdown", "ok")
    /\ UNCHANGED <<db_path_, disk>>

\* getDB(): throws unless initialized_ and db_
getDBThrows == ~initialized_ \/ db_ = NoDb

\* a call that goes through db_-> and leaves the database as it is; results
\* are the outcomes the open database can give
ReadThrough(op, results) ==
    /\ CanCall
    /\ \E o \in (IF db_ = NoDb THEN NullDeref ELSE results \cup {"io_failure"}) :
          flog' = Logged(op, o)
    /\ UNCHANGED <<db_, db_path_, initialized_, disk>>

\* a call that goes through db_-> and replaces the database contents by m
WriteThrough(op, m) ==
    /\ CanCall
    /\ IF db_ = NoDb
       THEN /\ \E o \in NullDeref : flog' = Logged(op, o)
            /\ UNCHANGED disk
       ELSE \/ /\ flog' = Logged(op, "io_failure")
               /\ UNCHANGED disk
            \/ /\ flog' = Logged(op, "ok")
               /\ disk' = [disk EXCEPT ![db_] = m]
    /\ UNCHANGED <<db_, db_path_, initialized_>>

Contents == IF db_ = NoDb THEN EmptyMap ELSE disk[db_]

FacadePut(k, v) == WriteThrough("put", MapPut(Contents, k, v))

FacadeGet(k) ==
    ReadThrough("get", IF k \in DOMAIN Contents THEN {"ok"} ELSE {"not_found"})

FacadeDel(k) == WriteThrough("del", MapDel(Contents, k))

FacadeExists(k) ==
    ReadThrough("exists", IF k \in DOMAIN Contents THEN {"ok"} ELSE {"not_found"})

FacadeRangeQuery == ReadThrough("rangeQuery", {"ok"})

\* prefixQuery computes the end key and calls rangeQuery
FacadePrefixQuery == ReadThrough("prefixQuery", {"ok"})

\* getStats(): db_->GetProperty, no status to throw
FacadeGetStats ==
    /\ CanCall
    /\ \E o \in (IF db_ = NoDb THEN NullDeref ELSE {"ok"}) :
          flog' = Logged("getStats", o)
    /\ UNCHANGED <<db_, db_path_, initialized_, disk>>

\* compactRange(start, end): db_->CompactRange, no status to throw
FacadeCompactRange ==
    /\ CanCall
    /\ \E o \in (IF db_ = NoDb THEN NullDeref ELSE {"ok"}) :
          flog' = Logged("compactRange", o)
    /\ UNCHANGED <<db_, db_path_, initialized_, disk>>

\* BatchWriter::commit of a batch holding put(k, v): getDB()->Write
BatchCommit(k, v) ==
    /\ CanCall
    /\ IF getDBThrows
       THEN /\ flog' = Logged("commit", "not_initialized")
            /\ UNCHANGED disk
       ELSE \/ /\ flog' = Logged("commit", "io_failure")
               /\ UNCHANGED disk
            \/ /\ flog' = Logged("commit", "ok")
               /\ disk' = [disk EXCEPT ![db_] = MapPut(disk[db_], k, v)]
    /\ UNCHANGED <<db_, db_path_, initialized_>>

\* createIterator(): Iterator(getDB())
CreateIterator ==
    /\ CanCall
    /\ flog' = Logged("createIterator",
                      IF getDBThrows THEN "not_initialized" ELSE "ok")
    /\ UNCHANGED <<db_, db_path_, initialized_, disk>>

facadeRest == <<poolVars, terrainVars, touches, concVars, ctorVars, connVars>>

FacadeNext ==
    \/ \E path \in Paths : Initialize(path) /\ UNCHANGED facadeRest
    \/ Shutdown /\ UNCHANGED facadeRest
    \/ \E k \in FacadeKeys, v \in FacadeValues : FacadePut(k, v) /\ UNCHANGED facadeRest
    \/ \E k \in FacadeKeys : FacadeGet(k) /\ UNCHANGED facadeRest
    \/ \E k \in FacadeKeys : FacadeDel(k) /\ UNCHANGED facadeRest
    \/ \E k \in FacadeKeys : FacadeExists(k) /\ UNCHANGED facadeRest
    \/ FacadeRangeQuery /\ UNCHANGED facadeRest
    \/ FacadePrefixQuery /\ UNCHANGED facadeRest
    \/ FacadeGetStats /\ UNCHANGED facadeRest
    \/ FacadeCompactRange /\ UNCHANGED facadeRest
    \/ \E k \in FacadeKeys, v \in FacadeValues : BatchCommit(k, v) /\ UNCHANGED facadeRest
    \/ CreateIterator /\ UNCHANGED facadeRest

FacadeSpec == PoolIdle /\ [][FacadeNext]_vars

(***************************************************************************)
(* TerrainStorageEngine's constructor, called with arbitrary arguments.    *)
(* Coordinates and the grid size are whole degrees here.                   *)
(***************************************************************************)
CtorArgs ==
    [min_lon : {0, 1}, max_lon : {0, 1, 1002}, min_lat : {0, 1},
     max_lat : {0, 1, 1002}, grid_size : {-1, 0, 1, 2}]

\* static_cast<int>(std::ceil(extent / grid_size)), grid_size > 0
CeilCells(extent, g) == (extent + g - 1) \div g

\* TerrainStorageEngine(db_manager, min_lon, min_lat, max_lon, max_lat,
\* grid_size, cache_capacity)
Construct(a) ==
    IF a.grid_size <= 0
    THEN engine' = [outcome |-> "throws", args |-> a]
    ELSE engine' = [outcome |-> "built", args |-> a,
                    grid_cols_ |-> CeilCells(a.max_lon - a.min_lon, a.grid_size),
                    grid_rows_ |-> CeilCells(a.max_lat - a.min_lat, a.grid_size)]

CtorNext ==
    \E a \in CtorArgs :
        Construct(a) /\ UNCHANGED <<poolVars, terrainVars, touches, concVars,
                                   facadeVars, connVars>>

CtorSpec == PoolIdle /\ [][CtorNext]_vars

(***************************************************************************)
(* DBConnectionPool.  A critical section of pool_mutex_ is one step; the   *)
(* mutex is free between steps unless a thread is stuck holding it.  Time  *)
(* is not counted: a timed wait may time out, and the cleaner may find any *)
(* number of the oldest idle connections over max_idle_time_.              *)
(***************************************************************************)
MaxConnIds == 3
MaxGetCalls == 4

\* DBConnectionPool(max_conn, ...)
max_connections_ == 2

ConnIds == 1..MaxConnIds

\* active_connections_.size() + idle_connections_.size() < max_connections_
HasRoomOffByOne(act, idl) == Cardinality(act) + Len(idl) <= max_connections_

HasRoom(act, idl) == Cardinality(act) + Len(idl) < max_connections_

\* the predicate of pool_cv_.wait_for
WaitPredAlways(act, idl) == TRUE

WaitPred(act, idl) == idl # <<>> \/ HasRoom(act, idl)

\* return {conn.get(), deleter}: the caller holds the connection
Give(c, conn, loc) ==
    /\ holds' = [holds EXCEPT ![c] = @ \cup {conn}]
    /\ gloc' = [gloc EXCEPT ![c] = [loc EXCEPT !.ret = "conn"]]
    /\ gpc' = [gpc EXCEPT ![c] = "idle"]
    /\ pool_mutex_' = 0

\* return getConnection() with `lock` still held: the callee locks
\* pool_mutex_ a second time on the same thread, which is undefined; the
\* thread blocks on itself for ever, or lock() throws std::system_error
Relock(c, loc) ==
    \/ /\ gpc' = [gpc EXCEPT ![c] = "deadlocked"]
       /\ pool_mutex_' = c
       /\ gloc' = [gloc EXCEPT ![c] = loc]
    \/ /\ gpc' = [gpc EXCEPT ![c] = "idle"]
       /\ pool_mutex_' = 0
       /\ gloc' = [gloc EXCEPT ![c] = [loc EXCEPT !.ret = "system_error"]]

\* getConnection from the idle loop to the start of the wait, under the
\* lock: the first j idle connections fail ping() and are dropped
TryGet(c, loc) ==
    \E j \in 0..Len(idle_connections_) :
       IF j < Len(idle_connections_)
       THEN /\ idle_connections_' =
                  SubSeq(idle_connections_, j + 2, Len(idle_connections_))
            /\ active_connections_' =
                  active_connections_ \cup {idle_connections_[j + 1]}
            /\ Give(c, idle_connections_[j + 1], loc)
            /\ UNCHANGED <<nextConn, pool_cv_>>
       ELSE /\ idle_connections_' = <<>>
            /\ \/ \* the factory makes a connection and connect() succeeds
                  /\ HasRoom(active_connections_, <<>>)
                  /\ nextConn < MaxConnIds
                  /\ active_connections_' = active_connections_ \cup {nextConn + 1}
                  /\ nextConn' = nextConn + 1
                  /\ Give(c, nextConn + 1, loc)
                  /\ UNCHANGED pool_cv_
               \/ \* no room, or no connection could be made
                  /\ UNCHANGED <<active_connections_, nextConn, holds>>
                  /\ IF WaitPred(active_connections_, <<>>)
                     THEN Relock(c, loc) /\ UNCHANGED pool_cv_
                     ELSE /\ gpc' = [gpc EXCEPT ![c] = "waiting"]
                          /\ pool_cv_' = pool_cv_ \cup {c}
                          /\ pool_mutex_' = 0
                          /\ gloc' = [gloc EXCEPT ![c] = loc]

\* getConnection()
GetConnection(c) ==
    /\ gpc[c] = "idle"
    /\ gcalls < MaxGetCalls
    /\ pool_mutex_ = 0
    /\ gcalls' = gcalls + 1
    /\ TryGet(c, [call |-> gcalls + 1,
                  full |-> Cardinality(active_connections_) = max_connections_,
                  released |-> FALSE,
                  active |-> active_connections_,
                  idle |-> idle_connections_,
                  ret |-> "none"])

\* wait_for reaches connection_timeout_
ConnTimeout(c) ==
    /\ gpc[c] = "waiting"
    /\ gpc' = [gpc EXCEPT ![c] = "timedout"]
    /\ pool_cv_' = pool_cv_ \ {c}
    /\ UNCHANGED <<idle_connections_, active_connections_, pool_mutex_, gloc,
                   holds, nextConn, gcalls>>

\* a condition variable may wake a blocked thread without a notification
ConnSpuriousWake(c) ==
    /\ gpc[c] = "waiting"
    /\ gpc' = [gpc EXCEPT ![c] = "woken"]
    /\ pool_cv_' = pool_cv_ \ {c}
    /\ UNCHANGED <<idle_connections_, active_connections_, pool_mutex_, gloc,
                   holds, nextConn, gcalls>>

\* wait_for re-locks and tests its predicate; true: return getConnection();
\* false after the timeout: return nullptr; false otherwise: wait again
ConnReacquire(c) ==
    /\ gpc[c] \in {"woken", "timedout"}
    /\ pool_mutex_ = 0
    /\ IF WaitPred(active_connections_, idle_connections_)
       THEN Relock(c, gloc[c]) /\ UNCHANGED pool_cv_
       ELSE IF gpc[c] = "timedout"
            THEN /\ gpc' = [gpc EXCEPT ![c] = "idle"]
                 /\ gloc' = [gloc EXCEPT ![c].ret = "null"]
                 /\ UNCHANGED <<pool_mutex_, pool_cv_>>
            ELSE /\ gpc' = [gpc EXCEPT ![c] = "waiting"]
                 /\ pool_cv_' = pool_cv_ \cup {c}
                 /\ UNCHANGED <<pool_mutex_, gloc>>
    /\ UNCHANGED <<idle_connections_, active_connections_, holds, nextConn, gcalls>>

ReleaseConnectionKeepsActive(c, conn) ==
    /\ gpc[c] = "idle"
    /\ conn \in holds[c]
    /\ pool_mutex_ = 0
    /\ holds' = [holds EXCEPT ![c] = @ \ {conn}]
    /\ idle_connections_' = Append(idle_connections_, conn)
    /\ UNCHANGED <<active_connections_, pool_cv_, gpc, gloc>>
    /\ UNCHANGED <<pool_mutex_, nextConn, gcalls>>

\* the caller drops the pointer: the deleter calls releaseConnection, which
\* ends with pool_cv_.notify_one()
ReleaseConnection(c, conn) ==
    /\ gpc[c] = "idle"
    /\ conn \in holds[c]
    /\ pool_mutex_ = 0
    /\ holds' = [holds EXCEPT ![c] = @ \ {conn}]
    /\ IF conn \in active_connections_
       THEN /\ idle_connections_' = Append(idle_connections_, conn)
            /\ active_connections_' = active_connections_ \ {conn}
            /\ IF pool_cv_ = {}
               THEN UNCHANGED <<pool_cv_, gpc>>
               ELSE \E w \in pool_cv_ :
                       /\ pool_cv_' = pool_cv_ \ {w}
                       /\ gpc' = [gpc EXCEPT ![w] = "woken"]
       ELSE UNCHANGED <<idle_connections_, active_connections_, pool_cv_, gpc>>
    /\ gloc' = [d \in ConnClients |->
                  IF gpc[d] # "idle" THEN [gloc[d] EXCEPT !.released = TRUE]
                  ELSE gloc[d]]
    /\ UNCHANGED <<pool_mutex_, nextConn, gcalls>>

\* cleanIdleConnections, one sweep: the n connections idle the longest are
\* over max_idle_time_ and are closed and erased
CleanIdle(n) ==
    /\ pool_mutex_ = 0
    /\ n <= Len(idle_connections_)
    /\ idle_connections_' = SubSeq(idle_connections_, n + 1, Len(idle_connections_))
    /\ UNCHANGED <<active_connections_, pool_mutex_, pool_cv_, gpc, gloc, holds,
                   nextConn, gcalls>>

connRest == <<poolVars, terrainVars, touches, concVars, facadeVars, ctorVars>>

ConnNext ==
    \/ \E c \in ConnClients : GetConnection(c) /\ UNCHANGED connRest
    \/ \E c \in ConnClients : ConnTimeout(c) /\ UNCHANGED connRest
    \/ \E c \in ConnClients : ConnSpuriousWake(c) /\ UNCHANGED connRest
    \/ \E c \in ConnClients : ConnReacquire(c) /\ UNCHANGED connRest
    \/ \E c \in ConnClients, conn \in ConnIds :
          ReleaseConnection(c, conn) /\ UNCHANGED connRest
    \/ \E n \in 1..max_connections_ : CleanIdle(n) /\ UNCHANGED connRest

ConnSpec == PoolIdle /\ [][ConnNext]_vars

\* the FIXED scenarios
FixedSpec == FixedInit /\ [][FixedNext]_vars

\* the CACHED scenario
CachedSpec == CachedInit /\ [][PoolNext]_vars

\* a FIXED pool whose max_threads exceeds min_threads, as it does with the
\* default max_threads
WideScenario ==
    [config |-> Cfg("FIXED", 1, MaxThreadsBound, 1),
     env |-> Env(NumSubmitters, MaxSubmits, {NORMAL}, {"value"}, TRUE)]

FixedWideSpec == PoolBuilt(WideScenario) /\ [][FixedNext]_vars

\* a CACHED pool with one submitter, on which shutdown is called again
\* after its first call
ReshutScenario ==
    [config |-> Cfg("CACHED", 1, MaxThreadsBound, 1),
     env |-> Env(1, MaxTasksBound, {NORMAL}, {"value"}, TRUE)]

ReshutNext == PoolNext \/ ShutdownAgain

ReshutSpec == PoolBuilt(ReshutScenario) /\ [][ReshutNext]_vars

(***************************************************************************)
(* Scheduling assumptions for the progress properties: a thread that can   *)
(* take its next step eventually takes it, and a timed wait eventually     *)
(* times out.  Nothing obliges a caller to call submit or shutdown, and    *)
(* nothing obliges the condition variable to wake a thread spuriously.     *)
(***************************************************************************)
FixedFairness ==
    /\ \A s \in Submitters :
          /\ WF_vars(SubmitCheckFull(s))
          /\ WF_vars(SubmitBlock(s))
          /\ WF_vars(SubmitTimeout(s))
          /\ SF_vars(SubmitReacquire(s))
          /\ WF_vars(SubmitNotify(s))
          /\ WF_vars(SubmitShouldExpand(s))
    /\ \A w \in WorkerIds :
          /\ WF_vars(WorkerLoop(w))
          /\ SF_vars(WorkerLock(w))
          /\ WF_vars(WorkerBlock(w))
          /\ SF_vars(WorkerReacquire(w))
          /\ WF_vars(WorkerStart(w))
          /\ WF_vars(WorkerFinish(w))
    /\ WF_vars(ShutdownNotifyAll)
    /\ WF_vars(ShutdownStopManager)
    /\ WF_vars(ShutdownJoinManager)
    /\ SF_vars(ShutdownTake)
    /\ WF_vars(ShutdownJoin)

OneWorkerInit == FixedInit /\ config_.min_threads = 1

FairFixedSpec == OneWorkerInit /\ [][FixedNext]_vars /\ FixedFairness

(***************************************************************************)
(* Properties of the worker pool                                           *)
(***************************************************************************)
Resolved(t) == tstate[t] \in {"value", "exception"}
Accepted(t) == tstate[t] \in {"queued", "dequeued", "running", "value", "exception"}
Dequeued == {deqSeq[i] : i \in 1..Len(deqSeq)}
Started == {startSeq[i] : i \in 1..Len(startSeq)}
Pos(seq, t) == CHOOSE i \in 1..Len(seq) : seq[i] = t
\* A and B were in the queue at the same time
Together(A, B) == A \in queuedWith[B] \/ B \in queuedWith[A]

\* C1: if shutdown is never invoked, every task that submit enqueued is
\* eventually executed, so its future becomes ready (value or exception).
C1_AcceptedEventuallyResolved ==
    \/ <>(sdpc # "idle")
    \/ \A t \in Tasks : (tstate[t] = "queued") ~> Resolved(t)

\* C2: once shutdown has flipped running_, shutdown eventually returns
\* (every worker has left its loop and has been joined).
C2_ShutdownReturns == (sdpc = "notify") ~> (sdpc = "done")

\* C3: after shutdown() has returned no accepted task is left with an
\* unresolved future.
C3_NoUnresolvedAfterShutdown ==
    (sdpc = "done") => \A t \in Tasks : Accepted(t) => Resolved(t)

\* C4: no step pushes a task onto task_queue_ once running_ is false.
C4_NoPushAfterShutdown ==
    [][(~running_) => (task_queue_' \subseteq task_queue_)]_vars

C10_WorkerCountBounds ==
    running_ => /\ config_.min_threads <= Len(workers_)
                /\ Len(workers_) <= config_.max_threads

\* the pool grew to max_threads and was reaped back to min_threads
C10_Witness ==
    /\ running_
    /\ config_.mode = "CACHED"
    /\ config_.min_threads < config_.max_threads
    /\ nextWorker >= config_.max_threads
    /\ Len(workers_) = config_.min_threads
    /\ \E w \in WorkerIds : wpc[w] = "exited" /\ \A i \in 1..Len(workers_) : workers_[i] # w

\* C11: while the pool runs, a worker that has left worker_routine and is
\* still in workers_ is marked in expired_workers_, so that the next
\* cleanup_expired_workers joins and erases it (an unmarked one is never
\* erased while the pool runs).
C11_ExitedWorkerStillMarked ==
    (running_ /\ mpc # "none") =>
        \A i \in 1..Len(workers_) :
            wpc[workers_[i]] = "exited" => workers_[i] \in expired_workers_

\* C12: the queue never holds more than max_tasks tasks.
C12_QueueBounded == Cardinality(task_queue_) <= config_.max_tasks

\* C13: a submit whose bounded wait ends while the queue is still full and
\* the pool is running throws the queue-full error, and that step leaves
\* task_queue_ and workers_ as they were, without the task.
C13_FullQueueSubmitFails ==
    [][\A s \in Submitters :
          (/\ spc[s] = "timedout" /\ spc'[s] # "timedout"
           /\ Cardinality(task_queue_) >= config_.max_tasks /\ running_)
          => (/\ tstate'[stask[s]] = "full_error"
              /\ task_queue_' = task_queue_
              /\ workers_' = workers_
              /\ stask[s] \notin task_queue_')]_vars

\* a submit failed on a full queue of a running pool
C13_Witness ==
    /\ running_
    /\ Cardinality(task_queue_) = config_.max_tasks
    /\ \E t \in Tasks : tstate[t] = "full_error"

(***************************************************************************)
(* Properties of the grid cache                                            *)
(***************************************************************************)
Range(seq) == {seq[i] : i \in 1..Len(seq)}

\* the n most recently touched distinct ids of a log, most recent first
RECURSIVE RecentDistinct(_, _, _, _)
RecentDistinct(log, i, n, acc) ==
    IF i = 0 \/ Len(acc) = n THEN acc
    ELSE IF log[i] \in Range(acc)
         THEN RecentDistinct(log, i - 1, n, acc)
         ELSE RecentDistinct(log, i - 1, n, Append(acc, log[i]))

\* C14: after any sequence of cache get and put calls, the resident grid
\* ids are the capacity_ most recently touched distinct ids (so a put into
\* a full cache evicts the least recently touched resident id only), and
\* access_list_ lists them most recent first.
C14_ResidentAreMostRecent ==
    lastOp.op \in {"cache.get", "cache.put"} =>
        /\ DOMAIN cache_map_ = Range(RecentDistinct(touches, Len(touches), capacity_, <<>>))
        /\ access_list_ = RecentDistinct(touches, Len(touches), capacity_, <<>>)

\* a put into a full cache evicted the id that was put first but not the
\* older id that was touched again after it
C14_Witness ==
    /\ lastOp.op = "cache.put" /\ lastOp.full
    /\ Len(touches) = 4
    /\ touches[1] = touches[3] /\ touches[2] # touches[1]
    /\ touches[4] \notin {touches[1], touches[2]}
    /\ DOMAIN cache_map_ = {touches[1], touches[4]}

\* C15: the cache never holds more than capacity_ grids, and cache_map_
\* and access_list_ hold the same grid ids, each once.
C15_CacheBounded ==
    /\ Cardinality(DOMAIN cache_map_) <= capacity_
    /\ Range(access_list_) = DOMAIN cache_map_
    /\ Len(access_list_) = Cardinality(DOMAIN cache_map_)

\* the cache is full, the grid just loaded is the most recent one, and a
\* grid that has stored points is not resident
C15_Witness ==
    /\ lastOp.op = "preloadGrid"
    /\ Len(access_list_) = capacity_
    /\ access_list_[1] = lastOp.grid
    /\ \E p \in Points :
          /\ written[p] # NoValue
          /\ computeGridId(p[1], p[2]) \notin DOMAIN cache_map_

(***************************************************************************)
(* Properties of the terrain engine                                        *)
(***************************************************************************)
InRect(lon, lat, r) == lon >= r[1] /\ lon <= r[3] /\ lat >= r[2] /\ lat <= r[4]
\* the in-bounds points some successful put or batchPut has written
WrittenPoints == {p \in Points : written[p] # NoValue}
\* two coordinates that print the same to 7 decimals
Same7(p, lon, lat) == Fmt7(p[1]) = Fmt7(lon) /\ Fmt7(p[2]) = Fmt7(lat)
\* what rangeQuery delivers over the same grids when no grid is cached
ColdResult(cells, r) ==
    UNION {FilterGrid(ScanGrid(store, cells[i]), r) : i \in 1..Len(cells)}

\* C5 as stated: after successful operations, get(lon, lat) of an in-bounds
\* point returns the value of the last put or batchPut to that very point.
C5_GetReturnsLastWriteToPoint ==
    (lastOp.op = "get" /\ ~failed /\ written[lastOp.point] # NoValue)
    => (lastOp.found /\ lastOp.value = written[lastOp.point])

\* C5 amended: get(lon, lat) returns the value of the last write to any
\* point that has the same storage key (same grid cell and the same
\* coordinates to 7 decimals), and finds nothing if there was no such write.
C5_GetReturnsLastWriteToKey ==
    (lastOp.op = "get" /\ ~failed /\ isWithinBounds(lastOp.point[1], lastOp.point[2]))
    => IF KeyOf(lastOp.point) \in DOMAIN lastWrite
       THEN lastOp.found /\ lastOp.value = lastWrite[KeyOf(lastOp.point)]
       ELSE ~lastOp.found

\* get found the point on the maximum bounds, its value overwritten once,
\* while the cache was full of other grids before the call loaded its grid
C5_Witness ==
    /\ lastOp.op = "get" /\ ~failed
    /\ lastOp.point = PointMax
    /\ lastOp.found /\ lastOp.value = "b"
    /\ Len(access_list_) = capacity_
    /\ written[PointA] = "a" /\ written[PointB] = "a"

\* C6: rangeQuery reports exactly the written points that lie in the closed
\* rectangle (coordinates compared as printed to 7 decimals): none inside is
\* omitted and none outside is reported.
C6_RangeQueryExact ==
    (lastOp.op = "rangeQuery" /\ ~failed) =>
        /\ \A p \in WrittenPoints :
              InRect(p[1], p[2], lastOp.rect)
              => \E t \in lastOp.result : Same7(p, t[1], t[2])
        /\ \A t \in lastOp.result :
              /\ InRect(t[1], t[2], lastOp.rect)
              /\ \E p \in WrittenPoints : Same7(p, t[1], t[2])

\* C7: after successful operations rangeQuery delivers the same triples
\* whether the grids it covers were cached or not: its result is the one a
\* scan of the store alone gives for the same grids.
C7_ResultIndependentOfCache ==
    (lastOp.op = "rangeQuery" /\ ~failed)
    => lastOp.result = ColdResult(lastOp.grids, lastOp.rect)

\* a query over two grids, one served from the cache and one loaded from the
\* store, that delivered points of both
C7_Witness ==
    /\ lastOp.op = "rangeQuery" /\ ~failed
    /\ Len(lastOp.grids) = 2
    /\ Cardinality(lastOp.hits) = 1
    /\ Cardinality(lastOp.result) >= 2
    /\ \E t \in lastOp.result : t[3] = "b"

\* a point outside the rectangle the engine was built with
OutOfBounds(p) ==
    p[1] < min_lon_ \/ p[1] > max_lon_ \/ p[2] < min_lat_ \/ p[2] > max_lat_

\* C16: put of an out-of-bounds point throws and get of one returns false,
\* and neither changes the store or the cache.
C16_OutOfBoundsNoEffect ==
    [][(lastOp'.op \in {"put", "get"} /\ OutOfBounds(lastOp'.point))
       => /\ IF lastOp'.op = "put" THEN ~lastOp'.ok ELSE ~lastOp'.found
          /\ store' = store
          /\ cache_map_' = cache_map_
          /\ access_list_' = access_list_]_vars

\* an out-of-bounds put was refused by an engine that holds data
C16_Witness ==
    /\ lastOp.op = "put" /\ ~lastOp.ok
    /\ OutOfBounds(lastOp.point)
    /\ store # EmptyMap /\ cache_map_ # EmptyMap

\* C17: a batchPut that contains an out-of-bounds point throws and leaves
\* the store as it was, wherever the point is in the batch.
C17_BatchAllOrNothing ==
    [][(/\ lastOp'.op = "batchPut"
        /\ \E i \in 1..Len(lastOp'.data) : OutOfBounds(lastOp'.data[i][1]))
       => (~lastOp'.ok /\ store' = store)]_vars

\* a batch failed on its last point and its first point is not in the store
C17_Witness ==
    /\ lastOp.op = "batchPut" /\ ~lastOp.ok
    /\ Len(lastOp.data) = 2
    /\ OutOfBounds(lastOp.data[2][1])
    /\ ~OutOfBounds(lastOp.data[1][1])
    /\ KeyOf(lastOp.data[1][1]) \notin DOMAIN store
    /\ store # EmptyMap

\* C18: after a get of an in-bounds point whose grid was not resident, the
\* grid is resident and its cached mapping is the store's content for the
\* grid, whether the point was found or not.
C18_WarmOnMiss ==
    (lastOp.op = "get" /\ ~OutOfBounds(lastOp.point) /\ ~lastOp.resident)
    => LET grid_id == computeGridId(lastOp.point[1], lastOp.point[2]) IN
       /\ grid_id \in DOMAIN cache_map_
       /\ cache_map_[grid_id] = ScanGrid(store, grid_id)

\* a get missed a full cache, did not find the point, and loaded the
\* point's grid all the same, while other grids hold points
C18_Witness ==
    /\ lastOp.op = "get" /\ ~OutOfBounds(lastOp.point)
    /\ ~lastOp.resident /\ ~lastOp.found
    /\ access_list_[1] = computeGridId(lastOp.point[1], lastOp.point[2])
    /\ Len(access_list_) = capacity_
    /\ store # EmptyMap

\* C36: a batchPut that fails on an out-of-bounds point leaves the cached
\* mapping of every resident grid as it was before the call.
C36_FailedBatchKeepsCache ==
    [][(lastOp'.op = "batchPut" /\ ~lastOp'.ok) => cache_map_' = cache_map_]_vars

\* C38: a rangeQuery leaves the set of resident grids as it was: it installs
\* no grid in the cache and evicts none.
C38_RangeQueryKeepsResidency ==
    [][lastOp'.op = "rangeQuery" => DOMAIN cache_map_' = DOMAIN cache_map_]_vars

(***************************************************************************)
(* Properties of the engine under concurrent callers                       *)
(***************************************************************************)
\* C19: every value a get returns for a point is a value that some put or
\* batchPut call wrote for that point.
C19_GetReturnsWrittenValue ==
    \A c \in Clients :
        (cpc[c] = "idle" /\ cop[c].op = "get" /\ cop[c].found)
        => cop[c].ret \in wrote[cop[c].point]

\* C20: when a get or preloadGrid that ran with no put or batchPut call in
\* progress installs the grid it loaded, the cached mapping of the grid is
\* the store's content for the grid, and a get returns the store's value;
\* and a put leaves its value in the store, replacing the earlier writers'.
C20_ReloadConverges ==
    [][\A c \in Clients :
        /\ (cpc[c] = "put_db" /\ cpc'[c] = "idle")
           => (cop[c].key \in DOMAIN store' /\ store'[cop[c].key] = cop[c].value)
        /\ (cpc[c] = "load_put" /\ cpc'[c] = "idle" /\ cop[c].clean)
          => /\ cop[c].grid \in DOMAIN cache_map_'
             /\ cache_map_'[cop[c].grid] = ScanGrid(store', cop[c].grid)
             /\ cop[c].op = "get" =>
                   /\ cop'[c].found = (cop[c].key \in DOMAIN store')
                   /\ cop'[c].found => cop'[c].ret = store'[cop[c].key]]_vars

\* two calls wrote different values to one point, its grid was evicted, and
\* a get with no writer in progress reloaded the grid and returned the
\* store's value
C20_Witness ==
    \E c \in Clients, d \in Clients :
        /\ c # d
        /\ cpc[c] = "idle" /\ cpc[d] = "idle"
        /\ cop[c].op = "get" /\ cop[c].clean /\ cop[c].found
        /\ cop[d].op = "evictGridFromCache" /\ cop[d].grid = cop[c].grid
        /\ Cardinality(wrote[cop[c].point]) = 2
        /\ cop[c].grid \in DOMAIN cache_map_
        /\ cache_map_[cop[c].grid] = ScanGrid(store, cop[c].grid)
        /\ cop[c].ret = store[cop[c].key]

\* C37: when every engine call has returned, every key of the resident grid
\* of PointA (a point that only successful calls write) has in the cache the
\* value it has in the store.
C37_CacheMatchesStore ==
    (\A c \in Clients : cpc[c] = "idle")
    => \A g \in {computeGridId(PointA[1], PointA[2])} \cap DOMAIN cache_map_ :
          \A k \in DOMAIN cache_map_[g] :
              k \in DOMAIN store /\ store[k] = cache_map_[g][k]

(***************************************************************************)
(* Properties of the grid index                                            *)
(***************************************************************************)
\* C21: the cell computeGridId gives a point has its row in [0, rows) and
\* its column in [0, cols): every key in the store and every grid in the
\* cache is filed under such a cell.
C21_CellIndexInRange ==
    \A g \in {k[1] : k \in DOMAIN store} \cup DOMAIN cache_map_ :
        /\ g[1] >= 0 /\ g[1] < grid_rows_
        /\ g[2] >= 0 /\ g[2] < grid_cols_

(***************************************************************************)
(* Further properties of the worker pool                                   *)
(***************************************************************************)
\* C24: a call of shutdown after the first one changes nothing in the pool,
\* and once the first call has returned the pool stays stopped: running_ is
\* false, workers_ is empty and the supervisor has ended.
C24_ShutdownIdempotent ==
    [][/\ sdcalls' # sdcalls =>
            UNCHANGED <<config_, running_, workers_, task_queue_, queue_mutex_,
                        waiters, expired_workers_, stop_requested, wpc, wtask,
                        spc, stask, mpc, sdpc, sd_workers, nextWorker, tstate>>
       /\ sdpc = "done" =>
            /\ ~running_ /\ workers_ = <<>> /\ mpc \in {"none", "exited"}
            /\ ~running_' /\ workers_' = <<>> /\ mpc' \in {"none", "exited"}
            /\ sdpc' = "done"]_vars

\* shutdown was called twice more and the pool is stopped
C24_Witness ==
    /\ sdcalls = MaxShutdownCalls
    /\ sdpc = "done"
    /\ ~running_ /\ workers_ = <<>> /\ mpc = "exited"

\* C25: in FIXED mode, until shutdown takes the workers away, workers_ holds
\* the min_threads threads of the constructor: none is added, none has left
\* its routine while the pool runs, none is marked expired, no caller is
\* sent to expand_workers and there is no supervisor.
C25_FixedWorkerCountConstant ==
    config_.mode = "FIXED" =>
       /\ sdpc \notin {"join", "done"} =>
             workers_ = [i \in 1..config_.min_threads |-> i]
       /\ nextWorker = config_.min_threads
       /\ expired_workers_ = {}
       /\ mpc = "none"
       /\ \A s \in Submitters : spc[s] # "expand"
       /\ running_ => \A w \in 1..config_.min_threads : wpc[w] # "exited"

\* a FIXED pool under more load than it has threads: its worker runs a
\* task, another task is queued and a submitter waits for room
C25_Witness ==
    /\ config_.mode = "FIXED" /\ running_
    /\ Len(workers_) = config_.min_threads
    /\ \A w \in 1..config_.min_threads : wpc[w] = "running"
    /\ task_queue_ # {}
    /\ \E s \in Submitters : spc[s] = "waiting"

C30_TaskRunsUnlocked ==
    \A w \in WorkerIds : wpc[w] \in {"exec", "running"} => queue_mutex_ # W(w)

\* while a worker runs a task, a submitter holds the queue mutex
C30_Witness ==
    \E w \in WorkerIds, s \in Submitters :
        wpc[w] = "running" /\ queue_mutex_ = S(s)

\* C31: a task whose body throws does not end its worker: the step in which
\* the task ends with an exception stores the exception in the task's future,
\* sends the worker back to the head of its loop and leaves workers_ and
\* expired_workers_ as they are; and while a FIXED pool runs, no thread in
\* workers_ has left worker_routine.
C31_ThrowingTaskKeepsWorker ==
    /\ [](running_ => \A i \in 1..Len(workers_) : wpc[workers_[i]] # "exited")
    /\ [][\A w \in WorkerIds :
             (/\ wpc[w] = "running"
              /\ tstate[wtask[w]] = "running"
              /\ tstate'[wtask[w]] = "exception")
             => /\ wpc'[w] = "loop"
                /\ workers_' = workers_
                /\ expired_workers_' = expired_workers_]_vars

\* the only worker of a pool ran a task that threw, and dequeued a later task
C31_Witness ==
    /\ config_.max_threads = 1
    /\ Len(workers_) = 1
    /\ \E t \in Dequeued, u \in Dequeued :
          /\ tstate[t] = "exception"
          /\ Pos(deqSeq, t) < Pos(deqSeq, u)

\* the workers that are inside worker_routine
LiveWorkers == {w \in WorkerIds : wpc[w] \notin {"unborn", "exited"}}

\* C32: while a CACHED pool runs, at least min_threads workers are inside
\* worker_routine (have not returned from it on an idle timeout).
C32_LiveWorkerFloor ==
    (running_ /\ config_.mode = "CACHED")
    => Cardinality(LiveWorkers) >= config_.min_threads

\* C33: as long as shutdown is not called: when submit has pushed a task and
\* is about to call notify_one while a worker is blocked waiting for work,
\* a task is eventually dequeued (the notification is not lost to a
\* submitter that waits for queue space).
C33_NoLostWakeup ==
    \/ <>(sdpc # "idle")
    \/ \A s \in Submitters, n \in 0..MaxSubmits :
          (/\ spc[s] = "notify"
           /\ Len(deqSeq) = n
           /\ \E w \in WorkerIds : wpc[w] = "waiting")
          ~> (Len(deqSeq) > n)

\* C34: in the step in which a worker inserts itself into expired_workers_
\* and returns from worker_routine, the task queue is empty.
C34_ExpiresOnlyWhenIdle ==
    [][\A w \in WorkerIds :
          (w \notin expired_workers_ /\ w \in expired_workers_')
          => task_queue_ = {}]_vars

\* C35: once the shutdown that flipped running_ has returned, workers_ and
\* expired_workers_ are empty, no worker thread is inside worker_routine
\* (none holds, runs or can still take a task), and the manager thread, if
\* there was one, has ended.
C35_QuiescentAfterShutdown ==
    (sdpc = "done") =>
        /\ Len(workers_) = 0
        /\ expired_workers_ = {}
        /\ \A w \in WorkerIds : wpc[w] \in {"unborn", "exited"} /\ wtask[w] = 0
        /\ mpc \in {"none", "exited"}

\* shutdown returned on a CACHED pool that had grown beyond min_threads and
\* had run a task, while a submitter is still inside submit
C35_Witness ==
    /\ sdpc = "done"
    /\ config_.mode = "CACHED"
    /\ nextWorker > config_.min_threads
    /\ \E t \in Tasks : Resolved(t)
    /\ \E s \in Submitters : spc[s] = "expand"

(***************************************************************************)
(* Properties of LevelDBManager                                            *)
(***************************************************************************)
\* the operations of the facade on the database
FacadeOps ==
    {"put", "get", "del", "exists", "rangeQuery", "prefixQuery", "commit",
     "createIterator", "getStats", "compactRange"}

\* C22: initialize on an initialised store fails with already-initialised
\* and leaves db_, db_path_ and initialized_ as they are; shutdown on a store
\* that is not initialised changes nothing; after shutdown the store is not
\* initialised, and initialize on such a store is not refused: it opens the
\* database, unless LevelDB fails to open it.
C22_SingleInit ==
    [][Len(flog') > Len(flog) =>
         /\ initialized_ = (db_ # NoDb)
         /\ (flog'[Len(flog')].op = "initialize" /\ initialized_) =>
               /\ flog'[Len(flog')].outcome = "already_initialized"
               /\ UNCHANGED <<db_, db_path_, initialized_, disk>>
         /\ (flog'[Len(flog')].op = "shutdown" /\ ~initialized_) =>
               UNCHANGED <<db_, db_path_, initialized_, disk>>
         /\ flog'[Len(flog')].op = "shutdown" =>
               (~initialized_' /\ db_' = NoDb)
         /\ (flog'[Len(flog')].op = "initialize" /\ ~initialized_) =>
               /\ flog'[Len(flog')].outcome \in {"ok", "open_failed"}
               /\ flog'[Len(flog')].outcome = "ok" =>
                     (initialized_' /\ db_' # NoDb /\ db_path_' = db_')
               /\ flog'[Len(flog')].outcome = "open_failed" =>
                     UNCHANGED <<db_, db_path_, initialized_, disk>>]_vars

\* a second initialize was refused, the store was shut down, and initialize
\* then succeeded again
C22_Witness ==
    /\ Len(flog) = 4
    /\ flog[1].op = "initialize" /\ flog[1].outcome = "ok"
    /\ flog[2].op = "initialize" /\ flog[2].outcome = "already_initialized"
    /\ flog[3].op = "shutdown"
    /\ flog[4].op = "initialize" /\ flog[4].outcome = "ok"
    /\ initialized_ /\ db_ # NoDb

\* C23: every facade operation called while the store is not initialised
\* ends with the not-initialised error.
C23_UninitialisedCallFails ==
    \A i \in 1..Len(flog) :
        (flog[i].op \in FacadeOps /\ ~flog[i].init)
        => flog[i].outcome = "not_initialized"

(***************************************************************************)
(* Properties of the engine's constructor                                  *)
(***************************************************************************)
\* C28: an engine is built only from arguments with min_lon < max_lon,
\* min_lat < max_lat, a positive cell size and at most 1000 rows and 1000
\* columns; every other construction throws.
C28_InvalidConfigRejected ==
    engine.outcome = "built" =>
        /\ engine.args.min_lon < engine.args.max_lon
        /\ engine.args.min_lat < engine.args.max_lat
        /\ engine.args.grid_size > 0
        /\ engine.grid_rows_ <= 1000
        /\ engine.grid_cols_ <= 1000

(***************************************************************************)
(* Properties of the connection pool                                       *)
(***************************************************************************)
\* C26: the active and the idle connections together never number more
\* than max_connections, and the connections callers hold are active ones,
\* each held by one caller, so at most max_connections are held at once.
C26_ConnectionBound ==
    /\ Cardinality(active_connections_) + Len(idle_connections_) <= max_connections_
    /\ \A c \in ConnClients : holds[c] \subseteq active_connections_
    /\ \A c \in ConnClients, d \in ConnClients : c # d => holds[c] \cap holds[d] = {}
    /\ Cardinality(UNION {holds[c] : c \in ConnClients}) <= max_connections_

\* both callers hold a connection and the pool is full, after the cleaner
\* or a failed ping made room for a third connection to be created
C26_Witness ==
    /\ \A c \in ConnClients : holds[c] # {}
    /\ Cardinality(active_connections_) = max_connections_
    /\ nextConn = MaxConnIds

\* C27: a getConnection call that begins with max_connections connections
\* checked out, and during which no connection is released, returns null and
\* leaves the active and idle sets as it found them.
C27_ExhaustionReturnsNull ==
    [][\A c \in ConnClients :
          (gpc'[c] = "idle" /\ (gpc[c] # "idle" \/ gloc'[c].call # gloc[c].call)
             /\ gloc'[c].full /\ ~gloc'[c].released)
          => /\ gloc'[c].ret = "null"
             /\ active_connections_' = gloc'[c].active
             /\ idle_connections_' = gloc'[c].idle]_vars

\* a caller holds every connection and the other caller's call timed out
\* and returned null
C27_Witness ==
    \E c \in ConnClients, d \in ConnClients :
        /\ Cardinality(holds[c]) = max_connections_
        /\ gpc[d] = "idle"
        /\ gloc[d].full /\ ~gloc[d].released /\ gloc[d].ret = "null"
        /\ active_connections_ = holds[c]

\* C39: a caller blocked in getConnection that is woken while an idle
\* connection is there for it leaves the wait with that call returning a
\* connection and with pool_mutex_ free.
C39_WokenWaiterGetsConnection ==
    [][\A c \in ConnClients :
          (/\ gpc[c] = "woken"
           /\ gpc'[c] # "woken"
           /\ idle_connections_ # <<>>)
          => /\ gpc'[c] = "idle"
             /\ gloc'[c].ret = "conn"
             /\ pool_mutex_' = 0]_vars

\* C40: no connection is both idle and active or twice in the idle list, and
\* no connection is held by two callers; a release moves the connection from
\* the active map to the back of the idle list and nowhere else; and a
\* getConnection hands out a connection of the idle list unless it dropped
\* every idle connection on a failed ping, in which case the connection is
\* a new one.
C40_ExclusiveCheckout ==
    /\ [](/\ \A i \in 1..Len(idle_connections_) :
               /\ idle_connections_[i] \notin active_connections_
               /\ \A j \in 1..Len(idle_connections_) :
                     idle_connections_[i] = idle_connections_[j] => i = j
           /\ \A c \in ConnClients, d \in ConnClients :
                 c # d => holds[c] \cap holds[d] = {})
    /\ [][\A c \in ConnClients :
             /\ \A conn \in holds[c] \ holds'[c] :
                   /\ idle_connections_' = Append(idle_connections_, conn)
                   /\ active_connections_' = active_connections_ \ {conn}
             /\ \A conn \in holds'[c] \ holds[c] :
                   /\ conn \in active_connections_'
                   /\ \/ conn \in Range(idle_connections_)
                      \/ /\ idle_connections_' = <<>>
                         /\ conn \notin active_connections_]_vars

\* a caller holds a connection that it took from the idle list, where an
\* earlier release had put it, while the other caller holds another one
C40_Witness ==
    \E c \in ConnClients, d \in ConnClients :
        /\ c # d
        /\ holds[d] # {}
        /\ gloc[c].ret = "conn"
        /\ holds[c] \cap Range(gloc[c].idle) # {}
=============================================================================
